---- MODULE Spec2Model ----
(***************************************************************************)
(* GeoAccuRate domain statistics engine and stratified point sampling.     *)
(*                                                                         *)
(* Floating-point values are modelled as exact rationals [n, d] in lowest  *)
(* terms; NaN is the rational 0/0.  Each pure function of the domain layer *)
(* is an operator that follows the source statement by statement; each     *)
(* specification draws the inputs of the functions it covers in its Init   *)
(* and applies the functions in its actions.                               *)
(*                                                                         *)
(*   Spec          compute_metrics, kappa.compute, pontius.compute and     *)
(*                 olofsson.compute applied to a confusion matrix          *)
(*   SpecBuild     build_matrix applied to paired label arrays             *)
(*   SpecSampling  generate_stratified_random, one loop iteration (class   *)
(*                 batch) per step, called twice with the same arguments   *)
(*   SpecCallback  generate_stratified_random with and without a           *)
(*                 progress callback                                       *)
(*   SpecWilson, SpecNormalize, SpecSampleSize, SpecAllocEqual,            *)
(*   SpecAllocProp, SpecConfidence: one pure function each                 *)
(*   SpecWorkflow  run_accuracy_assessment, one step per action            *)
(*   SpecTask      SamplingTask.run driving run_sample_generation          *)
(*                 while the user may cancel                               *)
(***************************************************************************)
EXTENDS Integers, Sequences, FiniteSets, TLC

VARIABLES
    \* ---- inputs of the statistics functions
    class_labels,       \* ordered tuple of distinct class values
    matrix,             \* confusion matrix, matrix[i][j]: reference i, classified j
    classified,         \* 1-D array of classified values (build_matrix)
    reference,          \* 1-D array of reference values (build_matrix)
    mapped_area_ha,     \* dict class value -> mapped area (olofsson.compute)
    result,             \* what the last call returned or raised
    args,               \* arguments of a call that takes no matrix (by name)
    \* ---- generate_stratified_random
    candidates_per_class,   \* dict class value -> sequence of <<x, y>>
    n_per_class,            \* dict class value -> desired sample count
    min_distance,
    seed,
    progress_callback,  \* TRUE: a callback is supplied; FALSE: None
    HAS_SCIPY,          \* module global _HAS_SCIPY of domain/sampling.py
    global_rng,         \* numpy's process-wide random state (np.random.*)
    pc,                 \* "idle" | "loop" (inside the class loop) | "returned"
    cls_idx,            \* number of classes of sorted(n_per_class) already done
    rng,                \* the call's own RandomState
    all_selected_coords,
    all_points,
    warnings,
    point_id,
    progress,           \* the progress_callback invocations, in order
    returned,           \* results of the calls that have returned
    \* ---- run_accuracy_assessment
    raster,             \* the classified raster file as the readers find it
    wf_pc,              \* the step run_accuracy_assessment is about to take
    validation,         \* validation.issues
    computed,           \* locals of the run, by name
    calls,              \* the domain functions called so far, in order
    reads,              \* what each get_raster_info of the run found
    \* ---- SamplingTask
    task_config,        \* the config dict the task was built from
    task_raster,        \* the classified raster: class value -> pixel centres
    canceled,           \* QgsTask.isCanceled()
    task_pc,            \* the step run() is about to take
    task_locals,        \* locals of run_sample_generation, by name
    task_result,        \* self.result
    task_exception,     \* self.exception
    run_returned,       \* what run() returned
    checkpoints         \* the calls of run()'s progress closure, in order

statsVars ==
    <<class_labels, matrix, classified, reference, mapped_area_ha, result, args>>

samplingVars ==
    <<candidates_per_class, n_per_class, min_distance, seed, progress_callback,
      HAS_SCIPY, global_rng,
      pc, cls_idx, rng, all_selected_coords, all_points, warnings, point_id,
      progress, returned>>

workflowVars == <<raster, wf_pc, validation, computed, calls, reads>>

taskVars ==
    <<task_config, task_raster, canceled, task_pc, task_locals, task_result,
      task_exception, run_returned, checkpoints>>

vars == <<statsVars, samplingVars, workflowVars, taskVars>>

(***************************************************************************)
(* Bounds of the input sets.                                               *)
(***************************************************************************)
MaxK == 2           \* matrices up to MaxK x MaxK, class values 1..MaxK
MaxTotal == 3       \* enumerated matrices hold at most MaxTotal samples
MaxLen == 2         \* label arrays of build_matrix have at most MaxLen entries
MaxCand == 2        \* the classes have at most MaxCand candidates altogether
MaxWant == 2        \* a class is asked for at most MaxWant samples

(***************************************************************************)
(* Generic helpers.                                                        *)
(***************************************************************************)
Abs(x) == IF x < 0 THEN -x ELSE x

Min(a, b) == IF a <= b THEN a ELSE b

Max(a, b) == IF a >= b THEN a ELSE b

RECURSIVE GCD(_, _)
GCD(a, b) == IF b = 0 THEN a ELSE GCD(b, a % b)

RECURSIVE SumSeq(_)
SumSeq(s) == IF s = <<>> THEN 0 ELSE Head(s) + SumSeq(Tail(s))

Range(s) == {s[i] : i \in DOMAIN s}

SeqsUpTo(S, n) == UNION {[1..m -> S] : m \in 0..n}

IsInjective(s) == \A i, j \in DOMAIN s : s[i] = s[j] => i = j

(***************************************************************************)
(* Exact rationals standing for Python floats.                             *)
(***************************************************************************)
NaN == [n |-> 0, d |-> 0]

IsNaN(a) == a.d = 0

RNorm(n, d) ==
    LET g == GCD(Abs(n), Abs(d))
        s == IF d < 0 THEN -1 ELSE 1
    IN  [n |-> s * (n \div g), d |-> s * (d \div g)]

R(n, d) == RNorm(n, d)

RInt(k) == [n |-> k, d |-> 1]

RAdd(a, b) ==
    LET g == GCD(a.d, b.d)
    IN  RNorm(a.n * (b.d \div g) + b.n * (a.d \div g), (a.d \div g) * b.d)

RNeg(a) == [n |-> -a.n, d |-> a.d]

RSub(a, b) == RAdd(a, RNeg(b))

RMul(a, b) ==
    LET g1 == GCD(Abs(a.n), b.d)
        g2 == GCD(Abs(b.n), a.d)
    IN  RNorm((a.n \div g1) * (b.n \div g2), (a.d \div g2) * (b.d \div g1))

\* a / b; a division by zero (numpy: nan or inf) gives NaN
RDiv(a, b) ==
    IF b.n = 0 \/ IsNaN(a) \/ IsNaN(b)
    THEN NaN
    ELSE RMul(a, IF b.n < 0 THEN [n |-> -b.d, d |-> -b.n] ELSE [n |-> b.d, d |-> b.n])

RAbs(a) == [n |-> Abs(a.n), d |-> a.d]

RLess(a, b) == a.n * b.d < b.n * a.d

RLeq(a, b) == a.n * b.d <= b.n * a.d

\* Comparisons through the sign of a difference (denominators cancel first).
RLt(a, b) == RSub(a, b).n < 0

RLe(a, b) == RSub(a, b).n <= 0

RMin(a, b) == IF RLeq(a, b) THEN a ELSE b

RECURSIVE RSum(_)
RSum(s) == IF s = <<>> THEN RInt(0) ELSE RAdd(Head(s), RSum(Tail(s)))

(***************************************************************************)
(* numpy views of a matrix.                                                *)
(***************************************************************************)
Rows(m) == Len(m)

Cols(m) == IF Len(m) = 0 THEN 0 ELSE Len(m[1])

MatrixSum(m) == SumSeq([i \in 1..Rows(m) |-> SumSeq(m[i])])

RowTotals(m) == [i \in 1..Rows(m) |-> SumSeq(m[i])]

ColTotals(m) == [j \in 1..Cols(m) |-> SumSeq([i \in 1..Rows(m) |-> m[i][j]])]

Diagonal(m) == [i \in 1..Rows(m) |-> m[i][i]]

(***************************************************************************)
(* domain/confidence.py                                                    *)
(***************************************************************************)
\* Z_SCORES: confidence level -> z, both as exact decimals.
Z_SCORES ==
    (R(80, 100) :> R(12816, 10000)) @@ (R(85, 100) :> R(14395, 10000)) @@
    (R(90, 100) :> R(16449, 10000)) @@ (R(95, 100) :> R(19600, 10000)) @@
    (R(99, 100) :> R(25758, 10000))

\* _probit raises for p outside the open interval (0, 1).
ProbitRejects(p) == RLe(p, RInt(0)) \/ RLe(RInt(1), p)

\* The rational approximation of _probit for p >= 0.5, at the values of p
\* that the model draws: the value of the source's formula to two decimals
\* (executed: -1.01e-07 for 0.5, 0.67419 for 0.75).
ProbitUpperHalf == (R(1, 2) :> RInt(0)) @@ (R(3, 4) :> R(67, 100))

\* _probit(p) for 0 < p < 1: -_probit(1 - p) below 0.5
probit(p) ==
    IF RLt(p, R(1, 2))
    THEN RNeg(ProbitUpperHalf[RSub(RInt(1), p)])
    ELSE ProbitUpperHalf[p]

\* p = (1 + confidence_level) / 2
ProbitArgument(confidence_level) == RDiv(RAdd(RInt(1), confidence_level), RInt(2))

\* z_score_for_confidence raises: the level is not in the table and _probit
\* refuses (1 + confidence_level) / 2.
ZScoreRaises(confidence_level) ==
    /\ confidence_level \notin DOMAIN Z_SCORES
    /\ ProbitRejects(ProbitArgument(confidence_level))

\* z_score_for_confidence where it returns: the table, else _probit.
z_score_for_confidence(confidence_level) ==
    IF confidence_level \in DOMAIN Z_SCORES
    THEN Z_SCORES[confidence_level]
    ELSE probit(ProbitArgument(confidence_level))

\* An interval  center -/+ z * scale * sqrt(rad), cut to [0, 1] when clamp.
\* The square root is kept symbolic so that the bounds stay exact.
Interval(center, z, scale, rad, clamp) ==
    [center |-> center, z |-> z, scale |-> scale, rad |-> rad, clamp |-> clamp]

NaNInterval == Interval(NaN, NaN, NaN, NaN, FALSE)

\* The literal pair (lo, lo): both bounds equal.
PointInterval(lo) == Interval(lo, RInt(0), RInt(0), RInt(0), FALSE)

\* wilson_ci(p, n, z); (0.0, 1.0) is 1/2 -/+ 1/2.
wilson_ci(p, n, z) ==
    IF n = 0
    THEN Interval(R(1, 2), RInt(1), R(1, 2), RInt(1), TRUE)
    ELSE LET z2 == RMul(z, z)
             denom == RAdd(RInt(1), RDiv(z2, RInt(n)))
             center == RDiv(RAdd(p, RDiv(z2, RInt(2 * n))), denom)
             rad == RAdd(RDiv(RMul(p, RSub(RInt(1), p)), RInt(n)),
                         RDiv(z2, RInt(4 * n * n)))
         IN  Interval(center, z, RDiv(RInt(1), denom), rad, TRUE)

\* kappa_ci(kappa, p_o, p_e, n, z)
kappa_ci(kappa, p_o, p_e, n, z) ==
    IF n = 0 \/ p_e = RInt(1)
    THEN PointInterval(RInt(0))
    ELSE LET om == RSub(RInt(1), p_e)
             var_k == RDiv(RMul(p_o, RSub(RInt(1), p_o)),
                           RMul(RInt(n), RMul(om, om)))
         IN  Interval(kappa, z, RInt(1), var_k, FALSE)

\* Default z of kappa_ci and olofsson.compute: 1.96.
DefaultZ == R(196, 100)

(***************************************************************************)
(* domain/confusion_matrix.py                                              *)
(***************************************************************************)
\* label_to_idx = {label: i for i, label in enumerate(class_labels)};
\* 0 stands for None (label_to_idx.get of a value that is no label).
label_to_idx(labels, v) ==
    IF v \in Range(labels)
    THEN CHOOSE i \in DOMAIN labels :
            labels[i] = v /\ \A j \in DOMAIN labels : labels[j] = v => j <= i
    ELSE 0

ZeroMatrix(k) == [i \in 1..k |-> [j \in 1..k |-> 0]]

\* Mutant of CountPair: rows indexed by the classified value.
CountPairTransposed(m, labels, c_val, r_val) ==
    LET r_idx == label_to_idx(labels, r_val)
        c_idx == label_to_idx(labels, c_val)
    IN  IF r_idx # 0 /\ c_idx # 0
        THEN [m EXCEPT ![c_idx][r_idx] = @ + 1]
        ELSE m

\* One iteration of the counting loop: the cell a pair increments, if any.
CountPair(m, labels, c_val, r_val) ==
    LET r_idx == label_to_idx(labels, r_val)
        c_idx == label_to_idx(labels, c_val)
    IN  IF r_idx # 0 /\ c_idx # 0
        THEN [m EXCEPT ![r_idx][c_idx] = @ + 1]
        ELSE m

\* The loop over zip(classified, reference), pairs t..Len.
RECURSIVE CountFrom(_, _, _, _, _)
CountFrom(m, labels, cls, ref, t) ==
    IF t > Len(cls)
    THEN m
    ELSE CountFrom(CountPair(m, labels, cls[t], ref[t]), labels, cls, ref, t + 1)

\* Mutant of build_matrix: the emptiness of classified is tested before the
\* lengths are compared.
build_matrix_empty_first(cls, ref, labels) ==
    IF Len(cls) = 0
    THEN [err |-> "EmptyInput"]
    ELSE IF Len(cls) # Len(ref)
    THEN [err |-> "LengthMismatch"]
    ELSE [err |-> "none",
          matrix |-> CountFrom(ZeroMatrix(Len(labels)), labels, cls, ref, 1)]

build_matrix(cls, ref, labels) ==
    IF Len(cls) # Len(ref)
    THEN [err |-> "LengthMismatch"]
    ELSE IF Len(cls) = 0
    THEN [err |-> "EmptyInput"]
    ELSE [err |-> "none",
          matrix |-> CountFrom(ZeroMatrix(Len(labels)), labels, cls, ref, 1)]

\* Producer's accuracy of class i: diagonal[i] / row_totals[i], NaN on an empty row.
ProducersAccuracy(m, i) ==
    IF RowTotals(m)[i] > 0 THEN R(Diagonal(m)[i], RowTotals(m)[i]) ELSE NaN


\* Mutant of UsersAccuracy: divides by the row total (rows and columns confused).
UsersAccuracyByRow(m, i) ==
    IF ColTotals(m)[i] > 0 /\ RowTotals(m)[i] > 0
    THEN R(Diagonal(m)[i], RowTotals(m)[i])
    ELSE NaN

\* User's accuracy of class i: diagonal[i] / col_totals[i], NaN on an empty column.
UsersAccuracy(m, i) ==
    IF ColTotals(m)[i] > 0 THEN R(Diagonal(m)[i], ColTotals(m)[i]) ELSE NaN

F1Score(pa_v, ua_v) ==
    IF ~(IsNaN(pa_v) \/ IsNaN(ua_v)) /\ RLess(RInt(0), RAdd(pa_v, ua_v))
    THEN RDiv(RMul(RInt(2), RMul(pa_v, ua_v)), RAdd(pa_v, ua_v))
    ELSE NaN

compute_metrics(m, labels, confidence_level) ==
    LET k == Len(labels)
        N == MatrixSum(m)
        z == z_score_for_confidence(confidence_level)
        idx(l) == label_to_idx(labels, l)
        keys == Range(labels)
        oa == R(SumSeq(Diagonal(m)), N)
        pa == [l \in keys |-> ProducersAccuracy(m, idx(l))]
        ua == [l \in keys |-> UsersAccuracy(m, idx(l))]
    IN  IF Rows(m) # k \/ Cols(m) # k
        THEN [err |-> "ShapeMismatch"]
        ELSE IF N = 0
        THEN [err |-> "EmptyInput"]
        ELSE IF ZScoreRaises(confidence_level)
        THEN [err |-> "InvalidParameter"]
        ELSE [err |-> "none",
              overall_accuracy |-> oa,
              overall_accuracy_ci |-> wilson_ci(oa, N, z),
              producers_accuracy |-> pa,
              users_accuracy |-> ua,
              producers_accuracy_ci |->
                  [l \in keys |-> IF IsNaN(pa[l]) THEN NaNInterval
                                  ELSE wilson_ci(pa[l], RowTotals(m)[idx(l)], z)],
              users_accuracy_ci |->
                  [l \in keys |-> IF IsNaN(ua[l]) THEN NaNInterval
                                  ELSE wilson_ci(ua[l], ColTotals(m)[idx(l)], z)],
              f1_per_class |-> [l \in keys |-> F1Score(pa[l], ua[l])],
              precision_per_class |-> [l \in keys |-> ua[l]],
              recall_per_class |-> [l \in keys |-> pa[l]]]

(***************************************************************************)
(* domain/kappa.py                                                         *)
(***************************************************************************)

\* Mutant of ExpectedAgreement: divides by N instead of N * N.
ExpectedAgreementByN(m) ==
    R(SumSeq([i \in 1..Rows(m) |-> RowTotals(m)[i] * ColTotals(m)[i]]), MatrixSum(m))

\* p_e = sum(row_totals * col_totals) / (N * N)
ExpectedAgreement(m) ==
    R(SumSeq([i \in 1..Rows(m) |-> RowTotals(m)[i] * ColTotals(m)[i]]),
      MatrixSum(m) * MatrixSum(m))


\* Mutant of KappaDegenerate: the degenerate case is never recognised.
KappaNeverDegenerate(p_e) == FALSE

\* abs(1.0 - p_e) < 1e-15.  1 - p_e is a multiple of 1/N^2, so for every N
\* below 10^7 it is below 1e-15 exactly when it is 0.
KappaDegenerate(p_e) == RAbs(RSub(RInt(1), p_e)).n = 0

kappa_compute(m) ==
    LET N == MatrixSum(m)
        p_o == R(SumSeq(Diagonal(m)), N)
        p_e == ExpectedAgreement(m)
        kappa == RDiv(RSub(p_o, p_e), RSub(RInt(1), p_e))
    IN  IF N = 0
        THEN [err |-> "EmptyInput"]
        ELSE IF KappaDegenerate(p_e)
        THEN [err |-> "none", kappa |-> RInt(0), ci |-> PointInterval(RInt(0))]
        ELSE [err |-> "none", kappa |-> kappa,
              ci |-> kappa_ci(kappa, p_o, p_e, N, DefaultZ)]

(***************************************************************************)
(* domain/pontius.py                                                       *)
(***************************************************************************)
\* q_i = abs(col_props[i] - row_props[i])
QuantityTerm(col_prop, row_prop) == RAbs(RSub(col_prop, row_prop))


\* Mutant of AllocationTerm: max instead of min.
AllocationTermMax(col_prop, row_prop, diag_prop) ==
    LET commission_i == RSub(col_prop, diag_prop)
        omission_i == RSub(row_prop, diag_prop)
    IN  RMul(RInt(2), IF RLeq(commission_i, omission_i) THEN omission_i ELSE commission_i)

\* a_i = 2.0 * min(commission_i, omission_i)
AllocationTerm(col_prop, row_prop, diag_prop) ==
    LET commission_i == RSub(col_prop, diag_prop)
        omission_i == RSub(row_prop, diag_prop)
    IN  RMul(RInt(2), RMin(commission_i, omission_i))

\* The identity check's tolerance is 1e-9 = 1 / PontiusTolInv.
PontiusTolInv == 1000000000

\* residual > 1e-9, for residual >= 0
ExceedsTolerance(residual) ==
    residual.n > 0 /\ (residual.d \div residual.n) < PontiusTolInv

pontius_compute(m) ==
    LET N == MatrixSum(m)
        k == Rows(m)
        row_props == [i \in 1..k |-> R(RowTotals(m)[i], N)]
        col_props == [i \in 1..k |-> R(ColTotals(m)[i], N)]
        diag_props == [i \in 1..k |-> R(Diagonal(m)[i], N)]
        qd == RDiv(RSum([i \in 1..k |-> QuantityTerm(col_props[i], row_props[i])]),
                   RInt(2))
        ad == RDiv(RSum([i \in 1..k |->
                            AllocationTerm(col_props[i], row_props[i], diag_props[i])]),
                   RInt(2))
        oa == RSum(diag_props)
        total_disagreement == RSub(RInt(1), oa)
        residual == RAbs(RSub(RAdd(qd, ad), total_disagreement))
    IN  IF N = 0
        THEN [err |-> "EmptyInput"]
        ELSE IF ExceedsTolerance(residual)
        THEN [err |-> "InvariantViolation"]
        ELSE [err |-> "none", qd |-> qd, ad |-> ad]


(***************************************************************************)
(* domain/olofsson.py                                                      *)
(***************************************************************************)
RECURSIVE SumValues(_)
SumValues(f) ==
    IF DOMAIN f = {}
    THEN 0
    ELSE LET key == CHOOSE x \in DOMAIN f : TRUE
         IN  f[key] + SumValues([x \in DOMAIN f \ {key} |-> f[x]])

\* Mutant of TotalArea: only the areas of the class labels are added up.
TotalAreaOfLabels(areas, labels) ==
    SumValues([l \in Range(labels) \cap DOMAIN areas |-> areas[l]])

\* A_total = sum(mapped_area_ha.values())
TotalArea(areas, labels) == SumValues(areas)

\* W = {label: mapped_area_ha[label] / A_total for label in class_labels}
AreaWeights(areas, labels, A_total) ==
    [l \in Range(labels) |-> R(areas[l], A_total)]

\* p_hat[i, j] = W[class_labels[j]] * (matrix[i, j] / n_j[j])
EstimatedProportions(m, W, labels, n_j) ==
    [i \in 1..Len(labels) |->
        [j \in 1..Len(labels) |-> RMul(W[labels[j]], R(m[i][j], n_j[j]))]]

\* One term of both variance sums: w_j^2 * p * (1 - p) / (n_j - 1)
VarianceTerm(w_j, p, n) ==
    RDiv(RMul(RMul(w_j, w_j), RMul(p, RSub(RInt(1), p))), RInt(n - 1))

\* Variance of the estimated area of reference class i: the columns with n_j > 1
AreaVariance(m, W, labels, n_j, i) ==
    RSum([j \in 1..Len(labels) |->
            IF n_j[j] > 1
            THEN VarianceTerm(W[labels[j]], R(m[i][j], n_j[j]), n_j[j])
            ELSE RInt(0)])

\* Variance of the weighted overall accuracy: NaN terms skipped
OAVariance(W, UA_w, labels, n_j) ==
    RSum([j \in 1..Len(labels) |->
            IF n_j[j] > 1 /\ ~IsNaN(UA_w[labels[j]])
            THEN VarianceTerm(W[labels[j]], UA_w[labels[j]], n_j[j])
            ELSE RInt(0)])

olofsson_compute(m, areas, labels, z) ==
    LET k == Len(labels)
        keys == Range(labels)
        idx == [l \in keys |-> label_to_idx(labels, l)]
        A_total == TotalArea(areas, labels)
        W == AreaWeights(areas, labels, A_total)
        n_j == ColTotals(m)
        p_hat == EstimatedProportions(m, W, labels, n_j)
        row_sum == [i \in 1..k |-> RSum(p_hat[i])]
        col_sum == [j \in 1..k |-> RSum([i \in 1..k |-> p_hat[i][j]])]
        A_hat == [l \in keys |-> RMul(RInt(A_total), row_sum[idx[l]])]
        OA_w == RSum([i \in 1..k |-> p_hat[i][i]])
        UA_w == [l \in keys |->
                    IF RLess(RInt(0), col_sum[idx[l]])
                    THEN RDiv(p_hat[idx[l]][idx[l]], col_sum[idx[l]])
                    ELSE NaN]
        PA_w == [l \in keys |->
                    IF RLess(RInt(0), row_sum[idx[l]])
                    THEN RDiv(p_hat[idx[l]][idx[l]], row_sum[idx[l]])
                    ELSE NaN]
    IN  IF Rows(m) # k \/ Cols(m) # k
        THEN [err |-> "ShapeMismatch"]
        ELSE IF \E l \in keys : l \notin DOMAIN areas
        THEN [err |-> "MissingArea"]
        ELSE IF A_total <= 0
        THEN [err |-> "InvalidInput"]
        ELSE IF \E j \in 1..k : n_j[j] = 0
        THEN [err |-> "ZeroSampleColumn"]
        ELSE [err |-> "none",
              weight_per_class |-> W,
              estimated_area_ha |-> A_hat,
              estimated_area_ci_ha |->
                  [l \in keys |-> Interval(A_hat[l], z, RInt(A_total),
                                           AreaVariance(m, W, labels, n_j, idx[l]), FALSE)],
              overall_accuracy_weighted |-> OA_w,
              overall_accuracy_weighted_ci |->
                  Interval(OA_w, z, RInt(1), OAVariance(W, UA_w, labels, n_j), FALSE),
              producers_accuracy_weighted |-> PA_w,
              users_accuracy_weighted |-> UA_w,
              mapped_area_ha |-> areas]

(***************************************************************************)
(* Input sets.                                                             *)
(***************************************************************************)
ClassValues == 1..MaxK

\* Ordered tuples of distinct class values.
LabelTuples == {s \in SeqsUpTo(ClassValues, MaxK) : Len(s) >= 1 /\ IsInjective(s)}

\* The sequences of `cells` counts that sum to at most `total`.
RECURSIVE CountSeqs(_, _)
CountSeqs(cells, total) ==
    IF cells = 0
    THEN {<<>>}
    ELSE UNION {{<<c>> \o rest : rest \in CountSeqs(cells - 1, total - c)} :
                    c \in 0..total}

Reshape(flat, k) == [i \in 1..k |-> [j \in 1..k |-> flat[(i - 1) * k + j]]]

\* The matrices of the test suite that the properties name.
simple_2class_matrix == <<(<<40, 10>>), (<<10, 40>>)>>

single_class_matrix == <<(<<100>>)>>

perfect_matrix == <<(<<50, 0, 0>>), (<<0, 30, 0>>), (<<0, 0, 20>>)>>

NamedMatrices == {simple_2class_matrix, single_class_matrix, perfect_matrix}

\* The matrices passed along with a label tuple: every k x k matrix of at most
\* MaxTotal samples for k = len(labels), and the named ones whatever their shape.
MatricesFor(labels) ==
    {Reshape(flat, Len(labels)) : flat \in CountSeqs(Len(labels) * Len(labels), MaxTotal)}
        \cup NamedMatrices

\* Mapped areas in hectares; class values with and without an entry.
AreaValues == {0, 1, 3}

AreaMaps == UNION {[keys -> AreaValues] : keys \in SUBSET ClassValues}

ConfidenceLevels == {R(95, 100)}

ZValues == {DefaultZ}

NoCall == [op |-> "none"]

\* No run of run_accuracy_assessment: its variables keep their first values.
WorkflowIdle ==
    /\ raster = << >>
    /\ wf_pc = "idle"
    /\ validation = << >>
    /\ computed = << >>
    /\ calls = << >>
    /\ reads = << >>

\* No SamplingTask: its variables keep their first values.
TaskIdle ==
    /\ task_config = << >>
    /\ task_raster = << >>
    /\ canceled = FALSE
    /\ task_pc = "idle"
    /\ task_locals = << >>
    /\ task_result = << >>
    /\ task_exception = << >>
    /\ run_returned = << >>
    /\ checkpoints = << >>

NoArgs == << >>

SamplingIdle ==
    /\ candidates_per_class = << >>
    /\ n_per_class = << >>
    /\ min_distance = 0
    /\ seed = 0
    /\ progress_callback = FALSE
    /\ HAS_SCIPY = FALSE
    /\ global_rng = 0
    /\ pc = "idle"
    /\ cls_idx = 0
    /\ rng = 0
    /\ all_selected_coords = << >>
    /\ all_points = << >>
    /\ warnings = << >>
    /\ point_id = 1
    /\ progress = << >>
    /\ returned = << >>

(***************************************************************************)
(* Spec: the statistics functions applied to a confusion matrix.           *)
(***************************************************************************)
Init ==
    /\ class_labels \in LabelTuples
    /\ matrix \in MatricesFor(class_labels)
    /\ classified = << >>
    /\ reference = << >>
    /\ mapped_area_ha = << >>
    /\ result = NoCall
    /\ args = NoArgs
    /\ SamplingIdle
    /\ WorkflowIdle
    /\ TaskIdle

ComputeMetrics ==
    /\ result = NoCall
    /\ \E level \in ConfidenceLevels :
          result' = [op |-> "compute_metrics", confidence_level |-> level,
                     out |-> compute_metrics(matrix, class_labels, level)]
    /\ UNCHANGED <<class_labels, matrix, classified, reference, mapped_area_ha, args>>
    /\ UNCHANGED <<samplingVars, workflowVars, taskVars>>

KappaCompute ==
    /\ result = NoCall
    /\ result' = [op |-> "kappa", out |-> kappa_compute(matrix)]
    /\ UNCHANGED <<class_labels, matrix, classified, reference, mapped_area_ha, args>>
    /\ UNCHANGED <<samplingVars, workflowVars, taskVars>>

PontiusCompute ==
    /\ result = NoCall
    /\ result' = [op |-> "pontius", out |-> pontius_compute(matrix)]
    /\ UNCHANGED <<class_labels, matrix, classified, reference, mapped_area_ha, args>>
    /\ UNCHANGED <<samplingVars, workflowVars, taskVars>>

OlofssonCompute ==
    /\ result = NoCall
    /\ \E areas \in AreaMaps, z \in ZValues :
          /\ mapped_area_ha' = areas
          /\ result' = [op |-> "olofsson", z |-> z,
                        out |-> olofsson_compute(matrix, areas, class_labels, z)]
    /\ UNCHANGED <<class_labels, matrix, classified, reference, args>>
    /\ UNCHANGED <<samplingVars, workflowVars, taskVars>>

Next ==
    \/ ComputeMetrics
    \/ KappaCompute
    \/ PontiusCompute
    \/ OlofssonCompute

Spec == Init /\ [][Next]_vars


(***************************************************************************)
(* SpecBuild: build_matrix applied to paired label arrays.                 *)
(***************************************************************************)
\* Values found in the arrays: the class values and 0, which is never a label.
ArrayValues == 0..MaxK

InitBuild ==
    /\ class_labels \in LabelTuples
    /\ classified \in SeqsUpTo(ArrayValues, MaxLen)
    /\ reference \in SeqsUpTo(ArrayValues, MaxLen)
    /\ matrix = << >>
    /\ mapped_area_ha = << >>
    /\ result = NoCall
    /\ args = NoArgs
    /\ SamplingIdle
    /\ WorkflowIdle
    /\ TaskIdle

BuildMatrix ==
    /\ result = NoCall
    /\ LET out == build_matrix(classified, reference, class_labels)
       IN  /\ result' = [op |-> "build_matrix", out |-> out]
           /\ matrix' = IF out.err = "none" THEN out.matrix ELSE matrix
    /\ UNCHANGED <<class_labels, classified, reference, mapped_area_ha, args>>
    /\ UNCHANGED <<samplingVars, workflowVars, taskVars>>

NextBuild == BuildMatrix

SpecBuild == InitBuild /\ [][NextBuild]_vars

(***************************************************************************)
(* domain/sampling.py                                                      *)
(***************************************************************************)
\* np.random.RandomState, modelled as a linear congruential generator over
\* 0..RngMod-1: the state after seeding, and the state after one draw.
RngMod == 7

\* Mutant of RandomState: the generator is numpy's process-wide one.
RandomStateGlobal(sd) == global_rng

RandomState(sd) == sd % RngMod

NextRand(st) == (3 * st + 1) % RngMod

Swap(p, i, j) == [p EXCEPT ![i] = p[j], ![j] = p[i]]

\* Fisher-Yates over positions i..1 of p, drawing from generator state st.
RECURSIVE Shuffle(_, _, _)
Shuffle(p, i, st) ==
    IF i <= 1
    THEN [perm |-> p, rng |-> st]
    ELSE LET st1 == NextRand(st)
         IN  Shuffle(Swap(p, i, (st1 % i) + 1), i - 1, st1)

\* rng.permutation(n): the index permutation and the generator state after it.
permutation(n, st) == Shuffle([i \in 1..n |-> i], n, st)

\* Squared Euclidean distance; coordinates are integers, so that
\* sqrt(dx^2 + dy^2) < min_distance exactly when dx^2 + dy^2 < min_distance^2.
DistSq(a, b) == (a[1] - b[1]) * (a[1] - b[1]) + (a[2] - b[2]) * (a[2] - b[2])

\* Mutant of TooClose: the distance to a previous point is not checked.
TooCloseNever(coord, prev, md) == FALSE

\* dist < min_distance, the test of both pairwise loops
TooClose(coord, prev, md) == DistSq(coord, prev) < md * md

\* Mutant of AnyTooClose: a previous point at exactly min_distance also counts.
AnyTooCloseInclusive(coord, prevs, md) ==
    \E t \in DOMAIN prevs : DistSq(coord, prevs[t]) <= md * md

\* The loop over `selected` (or, brute force, over existing_points): some prev is too close.
AnyTooClose(coord, prevs, md) == \E t \in DOMAIN prevs : TooClose(coord, prevs[t], md)

\* tree.query(coord)[0]: the distance to the nearest point of the tree, squared.
NearestDistSq(coord, pts) ==
    CHOOSE d \in {DistSq(coord, pts[t]) : t \in DOMAIN pts} :
        \A t \in DOMAIN pts : d <= DistSq(coord, pts[t])

\* Mutant of TreeRejects: the tree branch also rejects a point at exactly min_distance.
TreeRejectsInclusive(coord, existing_points, md) ==
    NearestDistSq(coord, existing_points) <= md * md

\* dist_to_existing < min_distance
TreeRejects(coord, existing_points, md) ==
    NearestDistSq(coord, existing_points) < md * md

\* The candidate loop of _select_with_distance from candidate i on; use_tree
\* says whether tree is not None.
RECURSIVE SelectFrom(_, _, _, _, _, _, _)
SelectFrom(cands, i, selected, n_desired, md, existing_points, use_tree) ==
    IF i > Len(cands) \/ Len(selected) >= n_desired
    THEN selected
    ELSE LET coord == cands[i]
             skip ==
                \/ AnyTooClose(coord, selected, md)
                \/ IF use_tree
                   THEN TreeRejects(coord, existing_points, md)
                   ELSE existing_points # << >> /\ AnyTooClose(coord, existing_points, md)
         IN  SelectFrom(cands, i + 1,
                        IF skip THEN selected ELSE Append(selected, coord),
                        n_desired, md, existing_points, use_tree)

select_with_distance(cands, n_desired, md, existing_points, has_scipy) ==
    SelectFrom(cands, 1, << >>, n_desired, md, existing_points,
               has_scipy /\ existing_points # << >>)

\* Mutant of SlicePrefix: the slice takes one row more.
SlicePrefixOneMore(coords, n) ==
    LET stop == IF n >= 0 THEN Min(n + 1, Len(coords)) ELSE Max(0, Len(coords) + n + 1)
    IN  SubSeq(coords, 1, stop)

\* coords[:n_desired], a Python slice
SlicePrefix(coords, n) ==
    LET stop == IF n >= 0 THEN Min(n, Len(coords)) ELSE Max(0, Len(coords) + n)
    IN  SubSeq(coords, 1, stop)

\* sorted(n_per_class.keys())
RECURSIVE SortedKeys(_)
SortedKeys(S) ==
    IF S = {}
    THEN << >>
    ELSE LET lo == CHOOSE x \in S : \A y \in S : x <= y
         IN  <<lo>> \o SortedKeys(S \ {lo})

\* Mutant of MakePoints: the ids start again at 1 in every class.
MakePointsFromOne(selected, class_val, first_id) ==
    [t \in DOMAIN selected |->
        [id |-> t, x |-> selected[t][1], y |-> selected[t][2],
         stratum_class |-> class_val]]

\* The SamplePoints of one class batch, ids first_id, first_id + 1, ...
MakePoints(selected, class_val, first_id) ==
    [t \in DOMAIN selected |->
        [id |-> first_id + t - 1, x |-> selected[t][1], y |-> selected[t][2],
         stratum_class |-> class_val]]

\* Mutant of progress_args: the index of the class instead of the count done.
progress_args_from_zero(idx, total) == <<idx, total>>

\* progress_callback(cls_idx + 1, total_classes)
progress_args(idx, total) == <<idx + 1, total>>

\* Mutant of Warning: the message gives the requested count as generated.
WarningWithoutShortfall(class_val, kind, got, wanted) ==
    [class |-> class_val, kind |-> kind, got |-> wanted, wanted |-> wanted]

\* A message "Class {class_val}: ... {got} of {wanted} samples generated"
Warning(class_val, kind, got, wanted) ==
    [class |-> class_val, kind |-> kind, got |-> got, wanted |-> wanted]

(***************************************************************************)
(* SpecSampling: generate_stratified_random, called twice with the same    *)
(* arguments; between the calls other code may draw from numpy's global    *)
(* generator and the process may run with or without scipy.                *)
(***************************************************************************)
SampleClasses == 1..2

\* Candidate coordinates: at distances 1, 2 and sqrt(5) of each other.
Coords == {<<0, 0>>, <<1, 0>>, <<0, 2>>}

MinDistances == {0, 2}

Seeds == {0, 1}

RECURSIVE TotalLen(_)
TotalLen(f) ==
    IF DOMAIN f = {}
    THEN 0
    ELSE LET key == CHOOSE x \in DOMAIN f : TRUE
         IN  Len(f[key]) + TotalLen([x \in DOMAIN f \ {key} |-> f[x]])

\* Every class has a candidate array, an empty one, or no entry at all.
CandidateMaps ==
    {f \in UNION {[keys -> SeqsUpTo(Coords, MaxCand)] : keys \in SUBSET SampleClasses} :
        TotalLen(f) <= MaxCand}

WantMaps == UNION {[keys -> 0..MaxWant] : keys \in SUBSET SampleClasses}

StatsIdle ==
    /\ class_labels = << >>
    /\ matrix = << >>
    /\ classified = << >>
    /\ reference = << >>
    /\ mapped_area_ha = << >>
    /\ result = NoCall
    /\ args = NoArgs

InitSampling ==
    /\ StatsIdle
    /\ WorkflowIdle
    /\ TaskIdle
    /\ candidates_per_class \in CandidateMaps
    /\ n_per_class \in WantMaps
    /\ min_distance \in MinDistances
    /\ seed \in Seeds
    /\ progress_callback = TRUE
    /\ HAS_SCIPY \in BOOLEAN
    /\ global_rng = 0
    /\ pc = "idle"
    /\ cls_idx = 0
    /\ rng = 0
    /\ all_selected_coords = << >>
    /\ all_points = << >>
    /\ warnings = << >>
    /\ point_id = 1
    /\ progress = << >>
    /\ returned = << >>

classes == SortedKeys(DOMAIN n_per_class)

total_classes == Len(classes)

inputVars == <<candidates_per_class, n_per_class, min_distance, seed, progress_callback>>

\* Entry of generate_stratified_random: the locals before the loop.
Call ==
    /\ pc = "idle"
    /\ pc' = "loop"
    /\ rng' = RandomState(seed)
    /\ all_selected_coords' = << >>
    /\ all_points' = << >>
    /\ warnings' = << >>
    /\ point_id' = 1
    /\ cls_idx' = 0
    /\ progress' = << >>
    /\ UNCHANGED <<inputVars, HAS_SCIPY, global_rng, returned>>
    /\ UNCHANGED <<statsVars, workflowVars, taskVars>>

\* The body of the loop over the sorted classes, up to the call of the
\* progress callback.
ClassBatchBody ==
    /\ pc = "loop"
    /\ cls_idx < total_classes
    /\ LET class_val == classes[cls_idx + 1]
           n_desired == n_per_class[class_val]
       IN  IF class_val \notin DOMAIN candidates_per_class
           THEN /\ warnings' = Append(warnings, Warning(class_val, "no candidates found", 0, n_desired))
                /\ UNCHANGED <<rng, all_selected_coords, all_points, point_id>>
           ELSE IF Len(candidates_per_class[class_val]) = 0
           THEN /\ warnings' = Append(warnings, Warning(class_val, "no candidates", 0, n_desired))
                /\ UNCHANGED <<rng, all_selected_coords, all_points, point_id>>
           ELSE LET coords0 == candidates_per_class[class_val]
                    shuffle == permutation(Len(coords0), rng)
                    coords == [t \in DOMAIN coords0 |-> coords0[shuffle.perm[t]]]
                    selected ==
                        IF min_distance > 0
                        THEN select_with_distance(coords, n_desired, min_distance,
                                                  all_selected_coords, HAS_SCIPY)
                        ELSE SlicePrefix(coords, n_desired)
                IN  /\ rng' = shuffle.rng
                    /\ warnings' =
                          IF Len(selected) < n_desired
                          THEN Append(warnings,
                                      Warning(class_val, "shortfall", Len(selected), n_desired))
                          ELSE warnings
                    /\ all_selected_coords' = all_selected_coords \o selected
                    /\ all_points' = all_points \o MakePoints(selected, class_val, point_id)
                    /\ point_id' = point_id + Len(selected)
    /\ progress' = IF progress_callback
                   THEN Append(progress, progress_args(cls_idx, total_classes))
                   ELSE progress
    /\ cls_idx' = cls_idx + 1
    /\ UNCHANGED <<inputVars, HAS_SCIPY, global_rng, returned>>
    /\ UNCHANGED <<statsVars, workflowVars>>

\* One iteration of the loop over the sorted classes; the callback returns.
ClassBatch ==
    /\ ClassBatchBody
    /\ UNCHANGED pc
    /\ UNCHANGED taskVars

\* return all_points, warnings
Return ==
    /\ pc = "loop"
    /\ cls_idx = total_classes
    /\ returned' = Append(returned, [points |-> all_points, warnings |-> warnings,
                                     progress |-> progress, has_scipy |-> HAS_SCIPY,
                                     callback |-> progress_callback])
    /\ pc' = "returned"
    /\ rng' = 0
    /\ all_selected_coords' = << >>
    /\ all_points' = << >>
    /\ warnings' = << >>
    /\ point_id' = 1
    /\ cls_idx' = 0
    /\ progress' = << >>
    /\ UNCHANGED <<inputVars, HAS_SCIPY, global_rng>>
    /\ UNCHANGED <<statsVars, workflowVars, taskVars>>

\* Between the two calls: other code draws from numpy's global generator, and
\* the second call runs where scipy is importable or where it is not.
BetweenCalls ==
    /\ pc = "returned"
    /\ Len(returned) = 1
    /\ pc' = "idle"
    /\ global_rng' = NextRand(global_rng)
    /\ HAS_SCIPY' \in BOOLEAN
    /\ UNCHANGED <<inputVars, cls_idx, rng, all_selected_coords, all_points,
                   warnings, point_id, progress, returned>>
    /\ UNCHANGED <<statsVars, workflowVars, taskVars>>

NextSampling ==
    \/ Call
    \/ ClassBatch
    \/ Return
    \/ BetweenCalls

SpecSampling == InitSampling /\ [][NextSampling]_vars

(***************************************************************************)
(* SpecCallback: generate_stratified_random called twice with the same     *)
(* arguments, once with a progress callback and once without.  The         *)
(* requested counts include a negative one.                                *)
(***************************************************************************)
SignedWantMaps == UNION {[keys -> (-1)..MaxWant] : keys \in SUBSET SampleClasses}

InitCallback ==
    /\ StatsIdle
    /\ WorkflowIdle
    /\ TaskIdle
    /\ candidates_per_class \in CandidateMaps
    /\ n_per_class \in SignedWantMaps
    /\ min_distance \in MinDistances
    /\ seed \in Seeds
    /\ progress_callback \in BOOLEAN
    /\ HAS_SCIPY = FALSE
    /\ global_rng = 0
    /\ pc = "idle"
    /\ cls_idx = 0
    /\ rng = 0
    /\ all_selected_coords = << >>
    /\ all_points = << >>
    /\ warnings = << >>
    /\ point_id = 1
    /\ progress = << >>
    /\ returned = << >>

\* Between the two calls: the caller supplies the callback it left out, or
\* leaves out the one it supplied.
SwitchCallback ==
    /\ pc = "returned"
    /\ Len(returned) = 1
    /\ pc' = "idle"
    /\ progress_callback' = ~progress_callback
    /\ UNCHANGED <<candidates_per_class, n_per_class, min_distance, seed, HAS_SCIPY,
                   global_rng, cls_idx, rng, all_selected_coords, all_points,
                   warnings, point_id, progress, returned>>
    /\ UNCHANGED <<statsVars, workflowVars, taskVars>>

NextCallback ==
    \/ Call
    \/ ClassBatch
    \/ Return
    \/ SwitchCallback

SpecCallback == InitCallback /\ [][NextCallback]_vars

(***************************************************************************)
(* SpecWilson: wilson_ci applied to a proportion, a sample size and a z.   *)
(***************************************************************************)
MaxTrials == 6      \* n ranges over 0..MaxTrials
PDen == 4           \* p ranges over 0, 1/PDen, ..., 1

\* IEEE-754 doubles.  A value is a double when its denominator is a power of
\* two (the numerators of the model are far below 2^53).
RECURSIVE IsPowerOfTwo(_)
IsPowerOfTwo(d) ==
    IF d <= 0 THEN FALSE
    ELSE IF d = 1 THEN TRUE
    ELSE d % 2 = 0 /\ IsPowerOfTwo(d \div 2)

IsDouble(x) == IsPowerOfTwo(x.d)

IsSquare(k) == \E r \in 0..k : r * r = k

\* math.sqrt(x) is exact: x is the square of a double
SqrtIsDouble(x) == IsDouble(x) /\ x.n >= 0 /\ IsSquare(x.n) /\ IsSquare(x.d)

\* Every intermediate value of wilson_ci (lines 57-63) is a double, so that no
\* operation rounds.
WilsonExact(p, n, z) ==
    LET z2 == RMul(z, z)
        denom == RAdd(RInt(1), RDiv(z2, RInt(n)))
        head == RDiv(RMul(p, RSub(RInt(1), p)), RInt(n))
        tail == RDiv(z2, RInt(4 * n * n))
        iv == wilson_ci(p, n, z)
    IN  /\ IsDouble(p) /\ IsDouble(z) /\ IsDouble(RDiv(z2, RInt(n)))
        /\ IsDouble(RDiv(z2, RInt(2 * n))) /\ IsDouble(iv.center)
        /\ IsDouble(head) /\ IsDouble(tail) /\ SqrtIsDouble(iv.rad)
        /\ IsDouble(iv.scale)

\* A rounded operation returns the exact value or a neighbouring double: the
\* bound is off by one unit in the last place, downwards or upwards, or exact.
Roundings == {-1, 0, 1}

\* wilson_ci with the rounding of its two bounds: center - spread and
\* center + spread are exact when nothing rounds; (0.0, 1.0) is returned as
\* literals.
wilson_ci_float(p, n, z, round_lower, round_upper) ==
    LET exact == n = 0 \/ WilsonExact(p, n, z)
    IN  [ci |-> wilson_ci(p, n, z),
         round_lower |-> IF exact THEN 0 ELSE round_lower,
         round_upper |-> IF exact THEN 0 ELSE round_upper]

Proportions == {R(i, PDen) : i \in 0..PDen}

WilsonZ == {R(1, 2), RInt(1), DefaultZ, RInt(3)}

\* No matrix, no label arrays.
MatrixIdle ==
    /\ class_labels = << >>
    /\ matrix = << >>
    /\ classified = << >>
    /\ reference = << >>
    /\ mapped_area_ha = << >>

matrixVars == <<class_labels, matrix, classified, reference, mapped_area_ha>>

InitWilson ==
    /\ MatrixIdle
    /\ SamplingIdle
    /\ WorkflowIdle
    /\ TaskIdle
    /\ result = NoCall
    /\ args \in [p : Proportions, n : 0..MaxTrials, z : WilsonZ]

WilsonCI ==
    /\ result = NoCall
    /\ \E round_lower \in Roundings, round_upper \in Roundings :
          result' = [op |-> "wilson_ci",
                     out |-> wilson_ci_float(args.p, args.n, args.z,
                                             round_lower, round_upper)]
    /\ UNCHANGED <<matrixVars, args>>
    /\ UNCHANGED <<samplingVars, workflowVars, taskVars>>

NextWilson == WilsonCI

SpecWilson == InitWilson /\ [][NextWilson]_vars

(***************************************************************************)
(* SpecNormalize: normalize_confusion_matrix applied to a matrix.          *)
(***************************************************************************)
\* totals = m.sum(axis=axis, keepdims=True), broadcast to cell (i, j)
TotalAlong(m, axis, i, j) == IF axis = 1 THEN RowTotals(m)[i] ELSE ColTotals(m)[j]

\* One cell of np.where(totals == 0, 0.0, m / safe_totals * 100.0).  The
\* quotient rounds unless it is a double; `round` says on which side of the
\* exact percentage the returned double lies.
NormalizedCell(cell, total, round) ==
    LET safe_total == IF total = 0 THEN 1 ELSE total
        quotient == R(cell, safe_total)
    IN  IF total = 0
        THEN [val |-> RInt(0), round |-> 0]
        ELSE [val |-> RMul(quotient, RInt(100)),
              round |-> IF IsDouble(quotient) THEN 0 ELSE round]

\* normalize_confusion_matrix(matrix, axis); rnd[i][j] is the rounding of cell (i, j)
normalize_confusion_matrix(m, axis, rnd) ==
    [i \in 1..Rows(m) |->
        [j \in 1..Cols(m) |-> NormalizedCell(m[i][j], TotalAlong(m, axis, i, j), rnd[i][j])]]

Axes == {0, 1}

SquareMatrices ==
    UNION {{Reshape(flat, k) : flat \in CountSeqs(k * k, MaxTotal)} : k \in 1..MaxK}

InitNormalize ==
    /\ matrix \in SquareMatrices
    /\ class_labels = << >>
    /\ classified = << >>
    /\ reference = << >>
    /\ mapped_area_ha = << >>
    /\ SamplingIdle
    /\ WorkflowIdle
    /\ TaskIdle
    /\ result = NoCall
    /\ args \in [axis : Axes]

Normalize ==
    /\ result = NoCall
    /\ \E rnd \in [1..Rows(matrix) -> [1..Cols(matrix) -> Roundings]] :
          result' = [op |-> "normalize_confusion_matrix",
                     out |-> normalize_confusion_matrix(matrix, args.axis, rnd)]
    /\ UNCHANGED <<matrixVars, args>>
    /\ UNCHANGED <<samplingVars, workflowVars, taskVars>>

NextNormalize == Normalize

SpecNormalize == InitNormalize /\ [][NextNormalize]_vars

(***************************************************************************)
(* domain/sample_size.py: calculate_sample_size                            *)
(***************************************************************************)
\* math.ceil of a rational
Ceil(x) == IF x.n % x.d = 0 THEN x.n \div x.d ELSE (x.n \div x.d) + 1

\* not 0 < v < 1
OutsideUnit(v) == ~(RLt(RInt(0), v) /\ RLt(v, RInt(1)))

\* n = (z ** 2 * p * (1 - p)) / (E ** 2)
CochranN(z, p, E) ==
    RDiv(RMul(RMul(RMul(z, z), p), RSub(RInt(1), p)), RMul(E, E))

\* Mutant of FinitePopulation: the correction multiplies instead of dividing.
FinitePopulationInflated(n, population_size) ==
    RMul(n, RAdd(RInt(1), RDiv(n, RInt(population_size))))

\* n = n / (1 + n / population_size)
FinitePopulation(n, population_size) ==
    RDiv(n, RAdd(RInt(1), RDiv(n, RInt(population_size))))

\* calculate_sample_size.  n is a double: where an operand or an intermediate
\* value is not a double the computed n may lie one unit in the last place
\* above the exact n (round = 1) or below it (round = -1), and math.ceil of a
\* double just above an integer is the next integer.
calculate_sample_size(confidence_level, expected_accuracy, margin_of_error, population_size, round) ==
    IF OutsideUnit(expected_accuracy) \/ OutsideUnit(margin_of_error)
          \/ OutsideUnit(confidence_level)
    THEN [err |-> "InvalidParameter"]
    ELSE LET z == z_score_for_confidence(confidence_level)
             n0 == CochranN(z, expected_accuracy, margin_of_error)
             n == IF population_size > 0 THEN FinitePopulation(n0, population_size) ELSE n0
             exact == /\ IsDouble(z) /\ IsDouble(expected_accuracy)
                      /\ IsDouble(margin_of_error) /\ IsDouble(n0) /\ IsDouble(n)
                      /\ population_size > 0 => IsDouble(RDiv(n0, RInt(population_size)))
         IN  [err |-> "none",
              n |-> IF ~exact /\ round = 1 /\ n.d = 1 THEN n.n + 1 ELSE Ceil(n)]

(***************************************************************************)
(* SpecSampleSize: calculate_sample_size applied to its four arguments.    *)
(***************************************************************************)
MaxPopulation == 3  \* small populations 1..MaxPopulation, besides the large ones

\* 0 and 1 are rejected.
Accuracies == {RInt(0), R(20, 100), R(50, 100), R(85, 100), RInt(1)}

Margins == {RInt(0), R(16, 1000), R(5, 100), R(50, 100)}

\* 0 stands for an infinite population.
Populations == (0..MaxPopulation) \cup {50, 1000}

InitSampleSize ==
    /\ MatrixIdle
    /\ SamplingIdle
    /\ WorkflowIdle
    /\ TaskIdle
    /\ result = NoCall
    /\ args \in [confidence_level : ConfidenceLevels, expected_accuracy : Accuracies,
                 margin_of_error : Margins, population_size : Populations]

CalculateSampleSize ==
    /\ result = NoCall
    /\ \E round \in Roundings :
          result' = [op |-> "calculate_sample_size",
                     out |-> calculate_sample_size(args.confidence_level,
                                                   args.expected_accuracy,
                                                   args.margin_of_error,
                                                   args.population_size, round)]
    /\ UNCHANGED <<matrixVars, args>>
    /\ UNCHANGED <<samplingVars, workflowVars, taskVars>>

NextSampleSize == CalculateSampleSize

SpecSampleSize == InitSampleSize /\ [][NextSampleSize]_vars

(***************************************************************************)
(* domain/sample_size.py: allocate_equal                                   *)
(***************************************************************************)
\* s without its element at position t
RemoveAt(s, t) == SubSeq(s, 1, t - 1) \o SubSeq(s, t + 1, Len(s))

\* sorted(s), for a list that may hold a value twice
RECURSIVE SortedList(_)
SortedList(s) ==
    IF s = << >>
    THEN << >>
    ELSE LET t == CHOOSE u \in DOMAIN s : \A v \in DOMAIN s : s[u] <= s[v]
         IN  <<s[t]>> \o SortedList(RemoveAt(s, t))

\* Mutant of ExtraSample: one class too many gets an extra sample.
ExtraSampleInclusive(i, remainder) == IF i <= remainder THEN 1 ELSE 0

\* (1 if i < remainder else 0), i counted from 0
ExtraSample(i, remainder) == IF i < remainder THEN 1 ELSE 0

\* The dict filled by the loop over enumerate(ordered), values[t] being the
\* value of entry t: a later entry of the same label overwrites an earlier one.
DictFromLoop(ordered, values) ==
    [l \in Range(ordered) |->
        LET last == CHOOSE t \in DOMAIN ordered :
                        ordered[t] = l /\ \A u \in DOMAIN ordered : ordered[u] = l => u <= t
        IN  values[last]]

MinRecommended == 25

allocate_equal(total_n, labels) ==
    IF labels = << >>
    THEN [err |-> "EmptyInput"]
    ELSE LET k == Len(labels)
             base == total_n \div k
             remainder == total_n % k
             ordered == SortedList(labels)
             values == [t \in DOMAIN ordered |-> base + ExtraSample(t - 1, remainder)]
         IN  [err |-> "none",
              allocation |-> DictFromLoop(ordered, values),
              warnings |-> IF base < MinRecommended
                           THEN <<[kind |-> "below recommended minimum", base |-> base]>>
                           ELSE << >>]

(***************************************************************************)
(* SpecAllocEqual: allocate_equal applied to a total and a label list.     *)
(***************************************************************************)
MaxAllocK == 3      \* label lists of up to MaxAllocK entries over 1..MaxAllocK
MaxTotalN == 5      \* total_n ranges over 0..MaxTotalN, besides the large ones

AllocLabels == 1..MaxAllocK

\* The small totals, the 100 of the test suite, and a total without warning.
TotalNs == (0..MaxTotalN) \cup {77, 100}

InitAllocEqual ==
    /\ MatrixIdle
    /\ SamplingIdle
    /\ WorkflowIdle
    /\ TaskIdle
    /\ result = NoCall
    /\ args \in [total_n : TotalNs, class_labels : SeqsUpTo(AllocLabels, MaxAllocK)]

AllocateEqual ==
    /\ result = NoCall
    /\ result' = [op |-> "allocate_equal",
                  out |-> allocate_equal(args.total_n, args.class_labels)]
    /\ UNCHANGED <<matrixVars, args>>
    /\ UNCHANGED <<samplingVars, workflowVars, taskVars>>

NextAllocEqual == AllocateEqual

SpecAllocEqual == InitAllocEqual /\ [][NextAllocEqual]_vars

(***************************************************************************)
(* domain/sample_size.py: allocate_proportional                            *)
(***************************************************************************)
\* Python's round(x) to an integer: the nearest one, a tie going to the even
\* neighbour.  x is the exact value of the float expression.
PyRound(x) ==
    LET low == x.n \div x.d
        twice == 2 * (x.n - low * x.d)
    IN  IF twice < x.d THEN low
        ELSE IF twice > x.d THEN low + 1
        ELSE IF low % 2 = 0 THEN low ELSE low + 1

\* allocation[label] = max(1, round(total_n * prop)), prop = count / total_pixels
InitialAllocation(total_n, class_pixel_counts, total_pixels) ==
    [label \in DOMAIN class_pixel_counts |->
        Max(1, PyRound(RMul(RInt(total_n), R(class_pixel_counts[label], total_pixels))))]

\* bumped_classes: below the minimum after the proportional step, with
\* enough pixels to reach it
BumpedClasses(allocation, class_pixel_counts, min_per_class) ==
    {label \in DOMAIN allocation :
        allocation[label] < min_per_class /\ class_pixel_counts[label] >= min_per_class}

\* The classes capped at their pixel count
CappedClasses(allocation, class_pixel_counts, min_per_class) ==
    {label \in DOMAIN allocation :
        allocation[label] < min_per_class /\ class_pixel_counts[label] < min_per_class}

\* The allocation after the loop "Enforce minimum per class"
EnforceMinimum(allocation, class_pixel_counts, min_per_class) ==
    [label \in DOMAIN allocation |->
        IF label \in BumpedClasses(allocation, class_pixel_counts, min_per_class)
        THEN min_per_class
        ELSE IF label \in CappedClasses(allocation, class_pixel_counts, min_per_class)
        THEN class_pixel_counts[label]
        ELSE allocation[label]]

\* adjustable: the classes not bumped whose allocation exceeds the minimum
Adjustable(allocation, bumped_classes, min_per_class) ==
    {l \in DOMAIN allocation : l \notin bumped_classes /\ allocation[l] > min_per_class}

\* The block "Adjust total": the difference to total_n is shared out over the
\* adjustable classes in proportion to their allocation, each kept at 1 or more.
AdjustTotal(allocation, bumped_classes, total_n, min_per_class) ==
    LET current_total == SumValues(allocation)
        adjustable == Adjustable(allocation, bumped_classes, min_per_class)
        diff == total_n - current_total
        adjustable_total == SumValues([l \in adjustable |-> allocation[l]])
    IN  IF current_total # total_n /\ current_total > 0
           /\ adjustable # {} /\ diff # 0 /\ adjustable_total > 0
        THEN [label \in DOMAIN allocation |->
                IF label \in adjustable
                THEN Max(1, allocation[label]
                            + PyRound(RMul(RInt(diff), R(allocation[label], adjustable_total))))
                ELSE allocation[label]]
        ELSE allocation

\* The warnings: one per capped class in label order, then one naming the
\* bumped classes
ProportionalWarnings(bumped_classes, capped, class_pixel_counts, min_per_class) ==
    [t \in 1..Len(SortedKeys(capped)) |->
        [kind |-> "only pixels available",
         label |-> SortedKeys(capped)[t],
         pixels |-> class_pixel_counts[SortedKeys(capped)[t]],
         minimum |-> min_per_class]]
    \o (IF bumped_classes # {}
        THEN <<[kind |-> "bumped to minimum",
                labels |-> SortedKeys(bumped_classes),
                minimum |-> min_per_class]>>
        ELSE << >>)

allocate_proportional(total_n, class_pixel_counts, min_per_class) ==
    IF DOMAIN class_pixel_counts = {}
    THEN [err |-> "EmptyInput"]
    ELSE LET total_pixels == SumValues(class_pixel_counts)
         IN  IF total_pixels = 0
             THEN [err |-> "EmptyInput"]
             ELSE LET initial == InitialAllocation(total_n, class_pixel_counts, total_pixels)
                      bumped_classes == BumpedClasses(initial, class_pixel_counts, min_per_class)
                      capped == CappedClasses(initial, class_pixel_counts, min_per_class)
                      enforced == EnforceMinimum(initial, class_pixel_counts, min_per_class)
                  IN  [err |-> "none",
                       allocation |-> AdjustTotal(enforced, bumped_classes, total_n, min_per_class),
                       warnings |-> ProportionalWarnings(bumped_classes, capped,
                                                         class_pixel_counts, min_per_class)]

(***************************************************************************)
(* SpecAllocProp: allocate_proportional applied to a total, a map of pixel *)
(* counts and a minimum per class.                                         *)
(***************************************************************************)
MaxPixels == 7      \* pixel counts range over 0..MaxPixels
MaxMin == 3         \* min_per_class ranges over 0..MaxMin

\* The dicts {class_value: pixel_count} over the labels 1..MaxK
PixelCountMaps == UNION {[S -> 0..MaxPixels] : S \in SUBSET (1..MaxK)}

InitAllocProp ==
    /\ MatrixIdle
    /\ SamplingIdle
    /\ WorkflowIdle
    /\ TaskIdle
    /\ result = NoCall
    /\ args \in [total_n : 0..MaxTotalN,
                 class_pixel_counts : PixelCountMaps,
                 min_per_class : 0..MaxMin]

AllocateProportional ==
    /\ result = NoCall
    /\ result' = [op |-> "allocate_proportional",
                  out |-> allocate_proportional(args.total_n, args.class_pixel_counts,
                                                args.min_per_class)]
    /\ UNCHANGED <<matrixVars, args>>
    /\ UNCHANGED <<samplingVars, workflowVars, taskVars>>

NextAllocProp == AllocateProportional

SpecAllocProp == InitAllocProp /\ [][NextAllocProp]_vars

(***************************************************************************)
(* SpecConfidence: the core operations that take a confidence level, each  *)
(* applied to a level inside or outside (0, 1).                            *)
(***************************************************************************)
\* Levels below, at and above the ends of (0, 1), a level of the table and
\* one that is not in it.
ProbedLevels ==
    {R(-3, 2), RInt(-1), R(-1, 2), RInt(0), R(1, 2), R(95, 100), RInt(1), R(3, 2)}

InitConfidence ==
    /\ class_labels \in LabelTuples
    /\ matrix \in MatricesFor(class_labels)
    /\ classified = << >>
    /\ reference = << >>
    /\ mapped_area_ha = << >>
    /\ result = NoCall
    /\ args \in [confidence_level : ProbedLevels, expected_accuracy : {R(85, 100)},
                 margin_of_error : {R(5, 100)}, population_size : {0}]
    /\ SamplingIdle
    /\ WorkflowIdle
    /\ TaskIdle

ZScoreForConfidence ==
    /\ result = NoCall
    /\ result' = [op |-> "z_score_for_confidence",
                  out |-> IF ZScoreRaises(args.confidence_level)
                          THEN [err |-> "InvalidParameter"]
                          ELSE [err |-> "none",
                                z |-> z_score_for_confidence(args.confidence_level)]]
    /\ UNCHANGED <<matrixVars, args>>
    /\ UNCHANGED <<samplingVars, workflowVars, taskVars>>

ComputeMetricsAtLevel ==
    /\ result = NoCall
    /\ result' = [op |-> "compute_metrics", confidence_level |-> args.confidence_level,
                  out |-> compute_metrics(matrix, class_labels, args.confidence_level)]
    /\ UNCHANGED <<matrixVars, args>>
    /\ UNCHANGED <<samplingVars, workflowVars, taskVars>>

NextConfidence ==
    \/ ZScoreForConfidence
    \/ ComputeMetricsAtLevel
    \/ CalculateSampleSize

SpecConfidence == InitConfidence /\ [][NextConfidence]_vars

(***************************************************************************)
(* core/raster_reader.py, core/area_calculator.py: the classified raster.  *)
(* A raster is [state, pixel_counts]: the file is missing, or it opens     *)
(* with a projected or a geographic CRS; pixel_counts is what              *)
(* count_pixels_per_class finds in it.                                     *)
(***************************************************************************)
\* The value the raster band declares as nodata
NoDataValue == 0

\* Stands for a reference class value that is not finite (NaN)
NotFinite == -1

\* Pixel size of the rasters of the model, in metres: one hectare a pixel
PixelSize == 100

get_raster_info(r) ==
    IF r.state = "missing"
    THEN [err |-> "FileNotFound"]
    ELSE [err |-> "none",
          crs_is_geographic |-> r.state = "geographic",
          pixel_size_x |-> PixelSize,
          pixel_size_y |-> PixelSize]

\* values[i] is the pixel value under point i, valid[i] is False on nodata
extract_values_at_points(r, pixel_values) ==
    IF r.state = "missing"
    THEN [err |-> "FileNotFound"]
    ELSE [err |-> "none",
          values |-> pixel_values,
          valid |-> [t \in DOMAIN pixel_values |-> pixel_values[t] # NoDataValue]]

compute_class_areas_ha(r, labels) ==
    LET info == get_raster_info(r)
    IN  IF info.err # "none"
        THEN [err |-> "FileNotFound"]
        ELSE IF info.crs_is_geographic
        THEN [err |-> "GeographicCRS"]
        ELSE LET pixel_area_ha == (info.pixel_size_x * info.pixel_size_y) \div 10000
                 kept == DOMAIN r.pixel_counts \cap Range(labels)
             IN  [err |-> "none",
                  area_ha |-> [cls \in kept |-> r.pixel_counts[cls] * pixel_area_ha],
                  pixel_counts |-> [cls \in kept |-> r.pixel_counts[cls]]]

(***************************************************************************)
(* core/input_validator.py                                                 *)
(***************************************************************************)
\* A ValidationIssue; about holds the numbers its message names.
ValidationIssue(severity, message, about) ==
    [severity |-> severity, message |-> message, about |-> about]

\* Mutant of is_valid: a FATAL finding does not count.
is_valid_always(issues) == issues = issues

is_valid(issues) == ~\E t \in DOMAIN issues : issues[t].severity = "FATAL"

IsFatal(issue) == issue.severity = "FATAL"

IsWarning(issue) == issue.severity = "WARNING"

fatal_issues(issues) == SelectSeq(issues, IsFatal)

MinSamplesPerClass == 25

\* Mutant of CrsFinding: the geographic CRS is only a WARNING.
CrsFindingAsWarning(area_weighted, info) ==
    IF area_weighted /\ info.crs_is_geographic
    THEN <<ValidationIssue("WARNING", "projected CRS required", {})>>
    ELSE << >>

\* The CRS check for area-weighted analysis
CrsFinding(area_weighted, info) ==
    IF area_weighted /\ info.crs_is_geographic
    THEN <<ValidationIssue("FATAL", "projected CRS required", {})>>
    ELSE << >>

validate_accuracy_inputs(r, reference_classes, classified_classes, n_reference_samples, n_excluded_nodata, area_weighted, labels, class_sample_counts) ==
    LET info == get_raster_info(r)
        crs == CrsFinding(area_weighted, info)
        nodata == IF n_excluded_nodata > 0
                  THEN <<ValidationIssue("WARNING", "samples excluded (nodata)",
                                         {n_excluded_nodata})>>
                  ELSE << >>
        ref_only == reference_classes \ classified_classes
        cls_only == classified_classes \ reference_classes
        mismatch ==
            (IF ref_only # {}
             THEN <<ValidationIssue("WARNING", "reference classes not in classified data",
                                    ref_only)>>
             ELSE << >>)
            \o (IF cls_only # {}
                THEN <<ValidationIssue("WARNING", "classified classes not in reference data",
                                       cls_only)>>
                ELSE << >>)
        Few(cls_val) == class_sample_counts[cls_val] < MinSamplesPerClass
        few == SelectSeq(labels, Few)
        per_class == [t \in DOMAIN few |->
                        ValidationIssue("WARNING", "few reference samples", {few[t]})]
    IN  IF info.err # "none"
        THEN <<ValidationIssue("FATAL", "cannot open classified raster", {})>>
        ELSE IF n_reference_samples = 0
        THEN crs \o <<ValidationIssue("FATAL", "no valid reference samples", {})>>
        ELSE crs \o nodata \o mismatch \o per_class

(***************************************************************************)
(* core/accuracy_workflow.py: run_accuracy_assessment, one step of the     *)
(* pipeline per action.  The arguments are in args; a sample is the pair   *)
(* <<pixel value under the point, reference class value>>.                 *)
(***************************************************************************)
\* None
None == [present |-> FALSE]

Some(v) == [present |-> TRUE, value |-> v]

\* class_mapping.get(int(v), int(v))
MapClass(class_mapping, v) == IF v \in DOMAIN class_mapping THEN class_mapping[v] ELSE v

\* The positions of the samples that are valid in the raster and finite in
\* the reference, in order
ValidPositions(samples) ==
    LET Keep(t) == samples[t][1] # NoDataValue /\ samples[t][2] # NotFinite
    IN  SelectSeq([t \in DOMAIN samples |-> t], Keep)

\* The run has raised: nothing is returned.
Raise(err) == [op |-> "run_accuracy_assessment", out |-> [err |-> err]]

MaxSamples == 2     \* a run has at most MaxSamples reference points

SamplePairs == {<<1, 1>>, <<2, 2>>, <<1, 2>>, <<NoDataValue, 1>>, <<1, NotFinite>>}

WorkflowLabels == {<<1>>, <<1, 2>>}

\* No mapping, and one that merges class 2 into class 1
ClassMappings == {<< >>, (2 :> 1)}

\* Two levels of the table
WorkflowLevels == {R(95, 100), R(80, 100)}

Rasters ==
    [state : {"missing", "projected", "geographic"},
     pixel_counts : {(1 :> 1) @@ (2 :> 3), (1 :> 2)}]

InitWorkflow ==
    /\ class_labels \in WorkflowLabels
    /\ matrix = << >>
    /\ classified = << >>
    /\ reference = << >>
    /\ mapped_area_ha = << >>
    /\ result = NoCall
    /\ args \in [samples : SeqsUpTo(SamplePairs, MaxSamples),
                 class_mapping : ClassMappings,
                 compute_kappa : BOOLEAN,
                 compute_area_weighted : BOOLEAN,
                 confidence_level : WorkflowLevels]
    /\ SamplingIdle
    /\ TaskIdle
    /\ raster \in Rasters
    /\ wf_pc = "running"
    /\ validation = << >>
    /\ computed = << >>
    /\ calls = << >>
    /\ reads = << >>

wfInputs == <<class_labels, args>>

\* Step 1: the pixel values at the points, the valid samples, the mapping.
WfExtract ==
    /\ wf_pc = "running"
    /\ LET samples == args.samples
           out == extract_values_at_points(raster, [t \in DOMAIN samples |-> samples[t][1]])
           keep == ValidPositions(samples)
           cls_valid == [t \in DOMAIN keep |-> samples[keep[t]][1]]
           mapped == IF args.class_mapping # << >>
                     THEN [t \in DOMAIN keep |-> MapClass(args.class_mapping, cls_valid[t])]
                     ELSE cls_valid
       IN  IF out.err # "none"
           THEN /\ result' = Raise(out.err)
                /\ wf_pc' = "done"
                /\ UNCHANGED <<classified, reference, computed>>
           ELSE /\ classified' = mapped
                /\ reference' = [t \in DOMAIN keep |-> samples[keep[t]][2]]
                /\ computed' = [n_valid |-> Len(keep),
                                n_excluded |-> Len(samples) - Len(keep)]
                /\ wf_pc' = "validate"
                /\ UNCHANGED result
    /\ UNCHANGED <<wfInputs, matrix, mapped_area_ha, raster, validation, calls, reads>>
    /\ UNCHANGED <<samplingVars, taskVars>>

\* Step 2: validate_accuracy_inputs; a FATAL finding ends the run.
WfValidate ==
    /\ wf_pc = "validate"
    /\ LET class_sample_counts ==
               [label \in Range(class_labels) |->
                   Cardinality({t \in DOMAIN reference : reference[t] = label})]
           issues == validate_accuracy_inputs(raster, Range(reference), Range(classified),
                                              computed.n_valid, computed.n_excluded,
                                              args.compute_area_weighted,
                                              class_labels, class_sample_counts)
       IN  /\ validation' = issues
           /\ IF is_valid(issues)
              THEN /\ wf_pc' = "build"
                   /\ UNCHANGED result
              ELSE /\ wf_pc' = "done"
                   /\ result' = [op |-> "run_accuracy_assessment",
                                 out |-> [err |-> "ValidationFailed",
                                          issues |-> fatal_issues(issues)]]
    /\ reads' = Append(reads, raster.state)
    /\ UNCHANGED <<wfInputs, matrix, classified, reference, mapped_area_ha, raster,
                   computed, calls>>
    /\ UNCHANGED <<samplingVars, taskVars>>

\* Step 3: the confusion matrix.
WfBuildMatrix ==
    /\ wf_pc = "build"
    /\ LET out == build_matrix(classified, reference, class_labels)
       IN  IF out.err # "none"
           THEN /\ result' = Raise(out.err)
                /\ wf_pc' = "done"
                /\ UNCHANGED matrix
           ELSE /\ matrix' = out.matrix
                /\ wf_pc' = "metrics"
                /\ UNCHANGED result
    /\ calls' = Append(calls, "build_matrix")
    /\ UNCHANGED <<wfInputs, classified, reference, mapped_area_ha, raster, validation,
                   computed, reads>>
    /\ UNCHANGED <<samplingVars, taskVars>>

\* Step 4: compute_metrics.
WfMetrics ==
    /\ wf_pc = "metrics"
    /\ LET out == compute_metrics(matrix, class_labels, args.confidence_level)
       IN  IF out.err # "none"
           THEN /\ result' = Raise(out.err)
                /\ wf_pc' = "done"
                /\ UNCHANGED computed
           ELSE /\ computed' = computed @@ [metrics |-> out]
                /\ wf_pc' = "pontius"
                /\ UNCHANGED result
    /\ calls' = Append(calls, "compute_metrics")
    /\ UNCHANGED <<wfInputs, matrix, classified, reference, mapped_area_ha, raster,
                   validation, reads>>
    /\ UNCHANGED <<samplingVars, taskVars>>

\* Step 5: pontius.compute.
WfPontius ==
    /\ wf_pc = "pontius"
    /\ LET out == pontius_compute(matrix)
       IN  IF out.err # "none"
           THEN /\ result' = Raise(out.err)
                /\ wf_pc' = "done"
                /\ UNCHANGED computed
           ELSE /\ computed' = computed @@ [qd |-> out.qd, ad |-> out.ad]
                /\ wf_pc' = "kappa"
                /\ UNCHANGED result
    /\ calls' = Append(calls, "pontius")
    /\ UNCHANGED <<wfInputs, matrix, classified, reference, mapped_area_ha, raster,
                   validation, reads>>
    /\ UNCHANGED <<samplingVars, taskVars>>

\* Step 6: kappa.compute(matrix), when compute_kappa.
WfKappa ==
    /\ wf_pc = "kappa"
    /\ IF args.compute_kappa
       THEN LET out == kappa_compute(matrix)
            IN  /\ calls' = Append(calls, "kappa")
                /\ IF out.err # "none"
                   THEN /\ result' = Raise(out.err)
                        /\ wf_pc' = "done"
                        /\ UNCHANGED computed
                   ELSE /\ computed' = computed @@ [kappa_val |-> Some(out.kappa),
                                                    kappa_ci |-> Some(out.ci)]
                        /\ wf_pc' = "olofsson"
                        /\ UNCHANGED result
       ELSE /\ computed' = computed @@ [kappa_val |-> None, kappa_ci |-> None]
            /\ wf_pc' = "olofsson"
            /\ UNCHANGED <<calls, result>>
    /\ UNCHANGED <<wfInputs, matrix, classified, reference, mapped_area_ha, raster,
                   validation, reads>>
    /\ UNCHANGED <<samplingVars, taskVars>>

\* Step 7: the class areas and olofsson.compute, when compute_area_weighted.
\* A GeographicCRSError is caught: a WARNING (None when validation.issues is
\* empty) is appended and the run goes on without the estimates.
WfOlofsson ==
    /\ wf_pc = "olofsson"
    /\ IF args.compute_area_weighted
       THEN LET areas == compute_class_areas_ha(raster, class_labels)
                out == olofsson_compute(matrix, areas.area_ha, class_labels,
                                        z_score_for_confidence(args.confidence_level))
            IN  /\ reads' = Append(reads, raster.state)
                /\ IF areas.err = "GeographicCRS"
                   THEN /\ validation' =
                              Append(validation,
                                     IF validation # << >>
                                     THEN ValidationIssue("WARNING",
                                              "area-weighted analysis skipped", {})
                                     ELSE ValidationIssue("None", "None", {}))
                        /\ computed' = computed @@ [area_weighted |-> None]
                        /\ wf_pc' = "package"
                        /\ UNCHANGED <<result, calls, mapped_area_ha>>
                   ELSE IF areas.err # "none"
                   THEN /\ result' = Raise(areas.err)
                        /\ wf_pc' = "done"
                        /\ UNCHANGED <<validation, computed, calls, mapped_area_ha>>
                   ELSE IF ZScoreRaises(args.confidence_level)
                   THEN /\ result' = Raise("InvalidParameter")
                        /\ wf_pc' = "done"
                        /\ mapped_area_ha' = areas.area_ha
                        /\ UNCHANGED <<validation, computed, calls>>
                   ELSE /\ calls' = Append(calls, "olofsson")
                        /\ mapped_area_ha' = areas.area_ha
                        /\ UNCHANGED validation
                        /\ IF out.err # "none"
                           THEN /\ result' = Raise(out.err)
                                /\ wf_pc' = "done"
                                /\ UNCHANGED computed
                           ELSE /\ computed' = computed @@ [area_weighted |-> Some(out)]
                                /\ wf_pc' = "package"
                                /\ UNCHANGED result
       ELSE /\ computed' = computed @@ [area_weighted |-> None]
            /\ wf_pc' = "package"
            /\ UNCHANGED <<result, calls, mapped_area_ha, validation, reads>>
    /\ UNCHANGED <<wfInputs, matrix, classified, reference, raster>>
    /\ UNCHANGED <<samplingVars, taskVars>>

\* Steps 8 and 9: the result, the provenance (one more get_raster_info) and
\* the return of (result, validation, metadata).
WfPackage ==
    /\ wf_pc = "package"
    /\ LET info == get_raster_info(raster)
       IN  result' =
              IF info.err # "none"
              THEN Raise(info.err)
              ELSE [op |-> "run_accuracy_assessment",
                    out |-> [err |-> "none",
                             result |-> [matrix |-> matrix,
                                         class_labels |-> class_labels,
                                         n_samples |-> computed.n_valid,
                                         n_excluded_nodata |-> computed.n_excluded,
                                         metrics |-> computed.metrics,
                                         quantity_disagreement |-> computed.qd,
                                         allocation_disagreement |-> computed.ad,
                                         kappa |-> computed.kappa_val,
                                         kappa_ci |-> computed.kappa_ci,
                                         area_weighted |-> computed.area_weighted],
                             validation |-> validation,
                             metadata |-> [class_mapping |-> args.class_mapping,
                                           compute_kappa |-> args.compute_kappa,
                                           compute_area_weighted |->
                                               args.compute_area_weighted,
                                           confidence_level |-> args.confidence_level,
                                           n_classes |-> Len(class_labels)]]]
    /\ wf_pc' = "done"
    /\ reads' = Append(reads, raster.state)
    /\ UNCHANGED <<wfInputs, matrix, classified, reference, mapped_area_ha, raster,
                   validation, computed, calls>>
    /\ UNCHANGED <<samplingVars, taskVars>>

\* Another process replaces, reprojects or removes the raster file during
\* the run.
RasterChanges ==
    /\ wf_pc \notin {"idle", "done"}
    /\ \E state \in {"missing", "projected", "geographic"} \ {raster.state} :
          raster' = [raster EXCEPT !.state = state]
    /\ UNCHANGED <<statsVars, wf_pc, validation, computed, calls, reads, taskVars>>
    /\ UNCHANGED <<samplingVars, taskVars>>

NextWorkflow ==
    \/ WfExtract
    \/ WfValidate
    \/ WfBuildMatrix
    \/ WfMetrics
    \/ WfPontius
    \/ WfKappa
    \/ WfOlofsson
    \/ WfPackage
    \/ RasterChanges

SpecWorkflow == InitWorkflow /\ [][NextWorkflow]_vars

(***************************************************************************)
(* tasks/sampling_task.py and core/sampling_workflow.py: SamplingTask.run  *)
(* drives run_sample_generation with a progress closure that raises        *)
(* InterruptedError once the task is cancelled.                            *)
(***************************************************************************)
\* count_pixels_per_class: the classes of the raster and their pixel counts
count_pixels_per_class(r) == [c \in DOMAIN r |-> Len(r[c])]

\* rate = min(1.0, max(0.01, n_per_class.get(cls, 50) * 10 / n_pixels)) < 1.0
Subsampled(wanted, cls, n_pixels) ==
    LET n == IF cls \in DOMAIN wanted THEN wanted[cls] ELSE 50
    IN  n * 10 < n_pixels

\* rows[mask]: the rows whose index is in keep, in their order
KeepRows(rows, keep) ==
    LET kept == SortedKeys(keep)
    IN  [t \in DOMAIN kept |-> rows[kept[t]]]

\* extract_candidate_pixels: every pixel centre of the class, or with a
\* subsample rate below 1 the rows a random mask keeps.
extract_candidate_pixels(r, cls, subsampled) ==
    IF cls \notin DOMAIN r
    THEN {<< >>}
    ELSE IF subsampled
    THEN {KeepRows(r[cls], keep) : keep \in SUBSET DOMAIN r[cls]}
    ELSE {r[cls]}

\* Mutant of run_except: InterruptedError is handled as any other exception.
run_except_any(err) == [returns |-> FALSE, exception |-> Some(err)]

\* The except clauses of run(): InterruptedError returns False, any other
\* exception is stored in self.exception first.
run_except(err) ==
    IF err = "InterruptedError"
    THEN [returns |-> FALSE, exception |-> None]
    ELSE [returns |-> FALSE, exception |-> Some(err)]

\* Step 2 of run_sample_generation: total_n, the override or the computed size
TotalN(config, total_pixels, round) ==
    IF config.total_n_override > 0
    THEN [err |-> "none", n |-> config.total_n_override]
    ELSE calculate_sample_size(config.confidence_level, config.expected_accuracy,
                               config.margin_of_error, total_pixels, round)

\* n_per_class = {cls: allocation_override[cls] for cls in class_labels
\*                if cls in allocation_override}; total_n = sum(n_per_class.values())
OverrideAllocation(pixel_counts, override) ==
    [err |-> "none",
     total_n |-> SumValues([c \in DOMAIN pixel_counts \cap DOMAIN override |-> override[c]]),
     allocation |-> [c \in DOMAIN pixel_counts \cap DOMAIN override |-> override[c]],
     warnings |-> << >>]

\* n_per_class, alloc_warnings = allocate_...(total_n, ...)
Allocated(out, total_n) ==
    IF out.err # "none"
    THEN [err |-> out.err]
    ELSE [err |-> "none", total_n |-> total_n, allocation |-> out.allocation,
          warnings |-> out.warnings]

\* Step 3 of run_sample_generation: the allocation
Allocation(config, pixel_counts, total_n) ==
    IF config.allocation_override.present /\ DOMAIN config.allocation_override.value # {}
    THEN OverrideAllocation(pixel_counts, config.allocation_override.value)
    ELSE IF config.allocation_method = "proportional"
    THEN Allocated(allocate_proportional(total_n, pixel_counts, config.min_per_class), total_n)
    ELSE IF config.allocation_method = "equal"
    THEN Allocated(allocate_equal(total_n, SortedKeys(DOMAIN pixel_counts)), total_n)
    ELSE [err |-> "UnknownAllocationMethod"]

\* Step 3 after step 2, which may have raised
AllocationAfter(config, pixel_counts, size) ==
    IF size.err # "none"
    THEN [err |-> size.err]
    ELSE Allocation(config, pixel_counts, size.n)

\* Steps 2 and 3 of run_sample_generation: total_n and the allocation.
AllocateSamples(config, pixel_counts, round) ==
    AllocationAfter(config, pixel_counts, TotalN(config, SumValues(pixel_counts), round))

\* Step 6 of run_sample_generation: the SampleSet
SampleSet(config, locals, wanted, points, gen_warnings) ==
    [design |-> [total_n |-> locals.total_n, allocation |-> config.allocation_method,
                 n_per_class |-> wanted, min_distance_m |-> config.min_distance_m,
                 random_seed |-> config.seed],
     points |-> points,
     strata_info |->
         [c \in Range(locals.class_labels) |->
             [pixel_count |-> locals.pixel_counts[c],
              n_requested |-> IF c \in DOMAIN wanted THEN wanted[c] ELSE 0,
              n_generated |->
                  Cardinality({t \in DOMAIN points : points[t].stratum_class = c})]],
     warnings |-> locals.all_warnings \o gen_warnings]

(***************************************************************************)
(* SpecTask: one SamplingTask runs on a small raster while the user may    *)
(* cancel it at any moment.                                                *)
(***************************************************************************)
\* Rasters: every pixel has its own centre, every class present has a pixel.
TaskRasters ==
    {f \in CandidateMaps :
        /\ \A c \in DOMAIN f : Len(f[c]) > 0
        /\ \A c, d \in DOMAIN f : \A t \in DOMAIN f[c] : \A u \in DOMAIN f[d] :
              f[c][t] = f[d][u] => (c = d /\ t = u)}

AllocationMethods == {"proportional", "equal", "optimal"}

AllocationOverrides == {None, Some((1 :> 0)), Some((1 :> 1) @@ (2 :> MaxWant))}

TaskConfigs ==
    [confidence_level : {R(95, 100)},
     expected_accuracy : {R(85, 100)},
     margin_of_error : {R(5, 100)},
     allocation_method : AllocationMethods,
     min_distance_m : MinDistances,
     seed : {0},
     min_per_class : {1},
     total_n_override : {0, MaxWant},
     allocation_override : AllocationOverrides]

InitTask ==
    /\ StatsIdle
    /\ WorkflowIdle
    /\ SamplingIdle
    /\ task_config \in TaskConfigs
    /\ task_raster \in TaskRasters
    /\ canceled = FALSE
    /\ task_pc = "created"
    /\ task_locals = << >>
    /\ task_result = None
    /\ task_exception = None
    /\ run_returned = None
    /\ checkpoints = << >>

taskInputs == <<task_config, task_raster>>

\* run() ends in one of its except clauses.
RunRaises(err) ==
    /\ task_pc' = "done"
    /\ run_returned' = Some(run_except(err).returns)
    /\ task_exception' = run_except(err).exception
    /\ UNCHANGED task_result

\* progress(step, total), the closure of run(): raises when the task is
\* cancelled, else reports and returns.
Checkpoint(step, total, next_pc) ==
    /\ checkpoints' = Append(checkpoints, [step |-> step, total |-> total,
                                           canceled |-> canceled])
    /\ IF canceled
       THEN RunRaises("InterruptedError")
       ELSE /\ task_pc' = next_pc
            /\ UNCHANGED <<task_result, task_exception, run_returned>>

\* run() up to the end of step 3 of run_sample_generation
RunStart ==
    /\ task_pc = "created"
    /\ LET pixel_counts == count_pixels_per_class(task_raster)
       IN  IF DOMAIN pixel_counts = {}
           THEN /\ RunRaises("NoValidPixels")
                /\ UNCHANGED <<task_locals, samplingVars>>
           ELSE \E round \in Roundings :
                   \E out \in {AllocateSamples(task_config, pixel_counts, round)} :
                       IF out.err # "none"
                       THEN /\ RunRaises(out.err)
                            /\ UNCHANGED <<task_locals, samplingVars>>
                       ELSE /\ task_locals' =
                                  [pixel_counts |-> pixel_counts,
                                   class_labels |-> SortedKeys(DOMAIN pixel_counts),
                                   total_n |-> out.total_n,
                                   all_warnings |-> out.warnings,
                                   i |-> 0]
                            /\ n_per_class' = out.allocation
                            /\ candidates_per_class' = << >>
                            /\ min_distance' = task_config.min_distance_m
                            /\ seed' = task_config.seed
                            /\ progress_callback' = TRUE
                            /\ task_pc' = "running"
                            /\ UNCHANGED <<task_result, task_exception, run_returned>>
                            /\ UNCHANGED <<HAS_SCIPY, global_rng, pc, cls_idx, rng,
                                           all_selected_coords, all_points, warnings,
                                           point_id, progress, returned>>
    /\ UNCHANGED <<taskInputs, canceled, checkpoints>>
    /\ UNCHANGED <<statsVars, workflowVars>>

\* Step 4, one class: its candidates, then the checkpoint.
ExtractClass ==
    /\ task_pc = "running"
    /\ task_locals.i < Len(task_locals.class_labels)
    /\ LET cls == task_locals.class_labels[task_locals.i + 1]
           total_steps == Len(task_locals.class_labels)
           subsampled == Subsampled(n_per_class, cls, task_locals.pixel_counts[cls])
       IN  /\ \E candidates \in extract_candidate_pixels(task_raster, cls, subsampled) :
                 candidates_per_class' = (cls :> candidates) @@ candidates_per_class
           /\ Checkpoint(task_locals.i + 1, total_steps * 2, "running")
    /\ task_locals' = [task_locals EXCEPT !.i = @ + 1]
    /\ UNCHANGED <<n_per_class, min_distance, seed, progress_callback, HAS_SCIPY,
                   global_rng, pc, cls_idx, rng, all_selected_coords, all_points,
                   warnings, point_id, progress, returned>>
    /\ UNCHANGED <<taskInputs, canceled>>
    /\ UNCHANGED <<statsVars, workflowVars>>

\* Step 5: generate_stratified_random is entered.
Generate ==
    /\ task_pc = "running"
    /\ task_locals.i = Len(task_locals.class_labels)
    /\ Call

\* One batch of generate_stratified_random, then the lambda of step 5 passes
\* the call on to the closure of run().
TaskBatch ==
    /\ task_pc = "running"
    /\ ClassBatchBody
    /\ LET total_steps == Len(task_locals.class_labels)
       IN  Checkpoint(total_steps + (cls_idx + 1), total_steps * 2, "running")
    /\ pc' = IF canceled THEN "raised" ELSE pc
    /\ UNCHANGED <<taskInputs, canceled, task_locals>>

\* generate_stratified_random returns.
Generated ==
    /\ task_pc = "running"
    /\ Return

\* Step 6 and the end of run(): the SampleSet is stored.
Package ==
    /\ task_pc = "running"
    /\ pc = "returned"
    /\ LET out == returned[Len(returned)]
       IN  task_result' = Some(SampleSet(task_config, task_locals, n_per_class,
                                         out.points, out.warnings))
    /\ run_returned' = Some(TRUE)
    /\ task_pc' = "done"
    /\ UNCHANGED <<taskInputs, canceled, task_locals, task_exception, checkpoints>>
    /\ UNCHANGED <<statsVars, samplingVars, workflowVars>>

\* The user cancels the task: QgsTask.cancel() sets the flag.
Cancel ==
    /\ ~canceled
    /\ canceled' = TRUE
    /\ UNCHANGED <<task_config, task_raster, task_pc, task_locals, task_result,
                   task_exception, run_returned, checkpoints>>
    /\ UNCHANGED <<statsVars, samplingVars, workflowVars>>

NextTask ==
    \/ RunStart
    \/ ExtractClass
    \/ Generate
    \/ TaskBatch
    \/ Generated
    \/ Package
    \/ Cancel

SpecTask == InitTask /\ [][NextTask]_vars

(***************************************************************************)
(* Properties of the statistics functions (Spec).                          *)
(***************************************************************************)
Trace(m) == SumSeq(Diagonal(m))

Called(op) == result.op = op

Returned(op) == result.op = op /\ result.out.err = "none"

ROne == RInt(1)

RZero == RInt(0)

\* All off-diagonal cells are zero.
PerfectAgreement(m) ==
    \A i \in 1..Rows(m), j \in 1..Cols(m) : i # j => m[i][j] = 0

\* C1: for every square matrix of non-negative counts with N > 0,
\* pontius.compute returns (QD, AD) with N*QD + N*AD = N - trace, that is
\* QD + AD = 1 - OA, and its identity self-check does not raise.
C1_PontiusIdentity ==
    (Called("pontius") /\ MatrixSum(matrix) > 0) =>
        /\ result.out.err = "none"
        /\ RAdd(RMul(RInt(MatrixSum(matrix)), result.out.qd),
                RMul(RInt(MatrixSum(matrix)), result.out.ad))
             = RInt(MatrixSum(matrix) - Trace(matrix))
        /\ RAdd(result.out.qd, result.out.ad)
             = RSub(ROne, R(Trace(matrix), MatrixSum(matrix)))

\* A matrix in which neither component vanishes.
C1_Witness ==
    /\ Returned("pontius")
    /\ RLess(RZero, result.out.qd)
    /\ RLess(RZero, result.out.ad)

\* C7: compute_metrics on a k x k matrix with N > 0 returns OA = trace/N,
\* PA = diagonal/row total (NaN exactly on an empty row), UA = diagonal/column
\* total (NaN exactly on an empty column), F1 = 2*PA*UA/(PA+UA) (NaN exactly
\* when PA or UA is NaN or PA+UA = 0), precision = UA, recall = PA; for
\* [[40,10],[10,40]] all of them are 0.80.
C7_MetricsFormulas ==
    (Called("compute_metrics") /\ Rows(matrix) = Len(class_labels)
        /\ Cols(matrix) = Len(class_labels) /\ MatrixSum(matrix) > 0) =>
        LET o == result.out IN
        /\ o.err = "none"
        /\ o.overall_accuracy.n * MatrixSum(matrix) = Trace(matrix) * o.overall_accuracy.d
        /\ ~IsNaN(o.overall_accuracy)
        /\ \A i \in DOMAIN class_labels :
              LET l == class_labels[i]
                  pa == o.producers_accuracy[l]
                  ua == o.users_accuracy[l]
                  f1 == o.f1_per_class[l]
                  row == RowTotals(matrix)[i]
                  col == ColTotals(matrix)[i]
                  diag == matrix[i][i]
              IN  /\ IsNaN(pa) <=> row = 0
                  /\ row > 0 => pa.n * row = diag * pa.d
                  /\ IsNaN(ua) <=> col = 0
                  /\ col > 0 => ua.n * col = diag * ua.d
                  /\ IsNaN(f1) <=> (IsNaN(pa) \/ IsNaN(ua) \/ RAdd(pa, ua) = RZero)
                  /\ ~IsNaN(f1) => RMul(f1, RAdd(pa, ua)) = RMul(RInt(2), RMul(pa, ua))
                  /\ o.precision_per_class[l] = ua
                  /\ o.recall_per_class[l] = pa
        /\ matrix = simple_2class_matrix =>
              /\ o.overall_accuracy = R(80, 100)
              /\ \A l \in Range(class_labels) :
                    /\ o.producers_accuracy[l] = R(80, 100)
                    /\ o.users_accuracy[l] = R(80, 100)
                    /\ o.f1_per_class[l] = R(80, 100)

C7_Witness ==
    /\ Returned("compute_metrics")
    /\ matrix = simple_2class_matrix
    /\ result.out.f1_per_class[class_labels[2]] = R(80, 100)

\* C8 as stated: for every perfect-agreement matrix with N > 0, OA = 1 and
\* PA = UA = 1 for every class, Kappa = 1, QD = 0 and AD = 0.
C8_PerfectAsStated ==
    (PerfectAgreement(matrix) /\ MatrixSum(matrix) > 0) =>
        /\ Returned("compute_metrics") =>
              /\ result.out.overall_accuracy = ROne
              /\ \A l \in Range(class_labels) :
                    /\ result.out.producers_accuracy[l] = ROne
                    /\ result.out.users_accuracy[l] = ROne
        /\ Called("kappa") => (result.out.err = "none" /\ result.out.kappa = ROne)
        /\ Called("pontius") =>
              (result.out.err = "none" /\ result.out.qd = RZero /\ result.out.ad = RZero)

\* The classes that hold samples.
NonEmptyClasses(m) == {i \in 1..Rows(m) : m[i][i] > 0}

\* C8 as amended: for every perfect-agreement matrix with N > 0, OA = 1,
\* QD = 0 and AD = 0; PA = UA = 1 for every class that holds samples and NaN
\* for a class that holds none; Kappa = 1 when at least two classes hold
\* samples and 0 (the degenerate convention) when a single class holds them all.
C8_PerfectAmended ==
    (PerfectAgreement(matrix) /\ MatrixSum(matrix) > 0) =>
        /\ Returned("compute_metrics") =>
              /\ result.out.overall_accuracy = ROne
              /\ \A i \in DOMAIN class_labels :
                    LET pa == result.out.producers_accuracy[class_labels[i]]
                        ua == result.out.users_accuracy[class_labels[i]]
                    IN  IF matrix[i][i] > 0
                        THEN pa = ROne /\ ua = ROne
                        ELSE IsNaN(pa) /\ IsNaN(ua)
        /\ Called("kappa") =>
              /\ result.out.err = "none"
              /\ result.out.kappa =
                    IF Cardinality(NonEmptyClasses(matrix)) >= 2 THEN ROne ELSE RZero
        /\ Called("pontius") =>
              (result.out.err = "none" /\ result.out.qd = RZero /\ result.out.ad = RZero)

C8_Witness ==
    /\ PerfectAgreement(matrix)
    /\ Cardinality(NonEmptyClasses(matrix)) >= 2
    /\ Returned("kappa")
    /\ result.out.kappa = ROne

\* C9: kappa.compute with N > 0 returns kappa = (p_o - p_e)/(1 - p_e) for
\* p_o = trace/N and p_e = sum(row_total*col_total)/N^2 (0.60 for
\* [[40,10],[10,40]]); when p_e = 1, as for [[100]], it returns kappa = 0 with
\* CI (0, 0); with N = 0 it fails with EmptyInput.
C9_KappaFormula ==
    Called("kappa") =>
        LET N == MatrixSum(matrix)
            S == SumSeq([i \in 1..Rows(matrix) |->
                            RowTotals(matrix)[i] * ColTotals(matrix)[i]])
            o == result.out
        IN  /\ N = 0 => o.err = "EmptyInput"
            /\ N > 0 =>
                  /\ o.err = "none"
                  /\ ~IsNaN(o.kappa)
                  /\ S = N * N => (o.kappa = RZero /\ o.ci = PointInterval(RZero))
                  /\ S # N * N => o.kappa.n * (N * N - S) = o.kappa.d * (Trace(matrix) * N - S)
            /\ matrix = simple_2class_matrix => o.kappa = R(60, 100)
            /\ matrix = single_class_matrix =>
                  (o.kappa = RZero /\ o.ci = PointInterval(RZero))

C9_Witness ==
    /\ Returned("kappa")
    /\ matrix = single_class_matrix
    /\ result.out.kappa = RZero

\* C10: in every result of olofsson.compute the weights sum to 1 across the
\* class labels and the estimated areas sum to sum(mapped_area_ha.values()).
C10_WeightsAndAreasSum ==
    Returned("olofsson") =>
        /\ RSum([i \in DOMAIN class_labels |->
                    result.out.weight_per_class[class_labels[i]]]) = ROne
        /\ RSum([i \in DOMAIN class_labels |->
                    result.out.estimated_area_ha[class_labels[i]]])
             = RInt(SumValues(mapped_area_ha))


(***************************************************************************)
(* Properties of the confidence intervals (Spec).                          *)
(***************************************************************************)
\* (nan, nan), or the square root of a negative number
IsNaNInterval(iv) == IsNaN(iv.center) \/ IsNaN(iv.rad) \/ iv.rad.n < 0

\* The square of the half width z * scale * sqrt(rad)
HalfSq(iv) == LET zs == RMul(iv.z, iv.scale) IN RMul(RMul(zs, zs), iv.rad)

\* x < sqrt(q) and x <= sqrt(q), for q >= 0
SqrtLess(x, q) == x.n < 0 \/ RLt(RMul(x, x), q)

SqrtLeq(x, q) == x.n <= 0 \/ RLe(RMul(x, x), q)

\* lower >= b, lower <= b, upper <= b, upper >= b for the bounds of an
\* interval; a bound of a NaN interval compares false with everything.
LowerGeq(iv, b) ==
    /\ ~IsNaNInterval(iv)
    /\ \/ iv.clamp /\ RLe(b, RInt(0))
       \/ ~SqrtLess(RSub(iv.center, b), HalfSq(iv))

LowerLeq(iv, b) ==
    /\ ~IsNaNInterval(iv)
    /\ iv.clamp => RLe(RInt(0), b)
    /\ SqrtLeq(RSub(iv.center, b), HalfSq(iv))

UpperLeq(iv, b) ==
    /\ ~IsNaNInterval(iv)
    /\ \/ iv.clamp /\ RLe(RInt(1), b)
       \/ ~SqrtLess(RSub(b, iv.center), HalfSq(iv))

UpperGeq(iv, b) ==
    /\ ~IsNaNInterval(iv)
    /\ iv.clamp => RLe(b, RInt(1))
    /\ SqrtLeq(RSub(b, iv.center), HalfSq(iv))

\* lower <= upper
LowerLeqUpper(iv) ==
    /\ ~IsNaNInterval(iv)
    /\ iv.clamp => /\ SqrtLeq(RNeg(iv.center), HalfSq(iv))
                   /\ SqrtLeq(RSub(iv.center, RInt(1)), HalfSq(iv))

\* A probability interval: lower <= upper, both in [0, 1]
ProbabilityInterval(iv) ==
    LowerLeqUpper(iv) /\ LowerGeq(iv, RInt(0)) /\ UpperLeq(iv, RInt(1))

\* An area interval: lower <= upper, both in [0, infinity)
AreaInterval(iv) == LowerLeqUpper(iv) /\ LowerGeq(iv, RInt(0))

\* C11: every confidence interval of a record returned by compute_metrics
\* (OA, PA, UA) or by olofsson.compute (weighted OA, estimated areas) has
\* lower <= upper and lies in its domain: [0, 1] for a probability,
\* [0, infinity) for an area.  The (nan, nan) interval of an undefined PA or
\* UA is not counted against the claim.
C11_IntervalsInDomain ==
    /\ Returned("compute_metrics") =>
          /\ ProbabilityInterval(result.out.overall_accuracy_ci)
          /\ \A l \in Range(class_labels) :
                LET pa_ci == result.out.producers_accuracy_ci[l]
                    ua_ci == result.out.users_accuracy_ci[l]
                IN  /\ IsNaNInterval(pa_ci) \/ ProbabilityInterval(pa_ci)
                    /\ IsNaNInterval(ua_ci) \/ ProbabilityInterval(ua_ci)
    /\ Returned("olofsson") =>
          /\ ProbabilityInterval(result.out.overall_accuracy_weighted_ci)
          /\ \A l \in Range(class_labels) :
                AreaInterval(result.out.estimated_area_ci_ha[l])

\* The error olofsson.compute must raise for its arguments, "none" if none:
\* the four conditions in the order in which the claim lists them.
OlofssonExpectedError ==
    LET k == Len(class_labels)
    IN  IF Len(matrix) # k \/ \E i \in DOMAIN matrix : Len(matrix[i]) # k
        THEN "ShapeMismatch"
        ELSE IF \E i \in DOMAIN class_labels : class_labels[i] \notin DOMAIN mapped_area_ha
        THEN "MissingArea"
        ELSE IF SumValues(mapped_area_ha) <= 0
        THEN "InvalidInput"
        ELSE IF \E j \in 1..k : \A i \in 1..k : matrix[i][j] = 0
        THEN "ZeroSampleColumn"
        ELSE "none"

\* C12: olofsson.compute returns a result only for a k x k matrix, an area for
\* every class label, a total mapped area > 0 and no empty column; otherwise it
\* fails with ShapeMismatch, MissingArea, InvalidInput or ZeroSampleColumn,
\* the first of these that applies, and returns no result.
C12_OlofssonErrors ==
    Called("olofsson") =>
        /\ result.out.err = OlofssonExpectedError
        /\ result.out.err # "none" => DOMAIN result.out = {"err"}
        /\ result.out.err = "none" => "estimated_area_ha" \in DOMAIN result.out

\* The total area is zero and a column is empty: InvalidInput comes first.
C12_Witness ==
    /\ Called("olofsson")
    /\ result.out.err = "InvalidInput"
    /\ Len(class_labels) = 2
    /\ \E j \in 1..2 : matrix[1][j] + matrix[2][j] = 0

(***************************************************************************)
(* Properties of build_matrix (SpecBuild).                                 *)
(***************************************************************************)
\* The positions whose reference value is r and whose classified value is c.
PairsAt(r, c) ==
    {t \in DOMAIN reference : reference[t] = r /\ classified[t] = c}

\* C6: build_matrix returns a k x k matrix whose cell [i][j] is the number of
\* positions t with reference[t] = class_labels[i] and classified[t] =
\* class_labels[j]; a pair with a value outside class_labels increments no
\* cell, so the total is the number of pairs with both values in class_labels.
C6_BuildMatrixCounts ==
    (Called("build_matrix") /\ Len(classified) = Len(reference) /\ Len(classified) > 0) =>
        /\ result.out.err = "none"
        /\ result.out.matrix = matrix
        /\ Rows(matrix) = Len(class_labels)
        /\ \A i \in DOMAIN class_labels :
              /\ Len(matrix[i]) = Len(class_labels)
              /\ \A j \in DOMAIN class_labels :
                    matrix[i][j] = Cardinality(PairsAt(class_labels[i], class_labels[j]))
        /\ MatrixSum(matrix) =
              Cardinality({t \in DOMAIN reference :
                              /\ reference[t] \in Range(class_labels)
                              /\ classified[t] \in Range(class_labels)})

\* One pair is dropped and another lands off the diagonal.
C6_Witness ==
    /\ Returned("build_matrix")
    /\ \E t \in DOMAIN classified : classified[t] \notin Range(class_labels)
    /\ \E i, j \in DOMAIN class_labels : i # j /\ matrix[i][j] > 0


\* C21 as stated: build_matrix fails with LengthMismatch whenever the two
\* sequences differ in length and with EmptyInput whenever either of them is
\* empty; in both cases no matrix is returned.
C21_EmptyWheneverEitherEmpty ==
    Called("build_matrix") =>
        /\ Len(classified) # Len(reference) => result.out.err = "LengthMismatch"
        /\ (Len(classified) = 0 \/ Len(reference) = 0) => result.out.err = "EmptyInput"
        /\ result.out.err # "none" => matrix = << >>

\* C21 amended: build_matrix fails with LengthMismatch whenever the two
\* sequences differ in length, also when one of them is empty, and with
\* EmptyInput when both are empty; in both cases no matrix is returned, and
\* in every other case one is.
C21_BuildMatrixErrors ==
    Called("build_matrix") =>
        /\ Len(classified) # Len(reference) <=> result.out.err = "LengthMismatch"
        /\ (Len(classified) = 0 /\ Len(reference) = 0) <=> result.out.err = "EmptyInput"
        /\ result.out.err # "none" => matrix = << >> /\ "matrix" \notin DOMAIN result.out

\* classified is empty and reference is not: the call fails with
\* LengthMismatch.
C21_Witness ==
    /\ Called("build_matrix")
    /\ Len(classified) = 0
    /\ Len(reference) > 0
    /\ result.out.err = "LengthMismatch"
    /\ matrix = << >>


(***************************************************************************)
(* Properties of generate_stratified_random (SpecSampling).                *)
(***************************************************************************)
\* Every pair of distinct points of the list is at least md apart.
PairwiseApart(points, md) ==
    \A i, j \in DOMAIN points :
        i # j => DistSq(<<points[i].x, points[i].y>>, <<points[j].x, points[j].y>>)
                    >= md * md

\* C2: with min_distance > 0 every pair of distinct returned points, of the
\* same class or of two different classes, is at least min_distance apart.
C2_MinDistanceRespected ==
    min_distance > 0 =>
        /\ PairwiseApart(all_points, min_distance)
        /\ \A c \in DOMAIN returned : PairwiseApart(returned[c].points, min_distance)

\* Two classes both yield a point, exactly min_distance apart.
C2_Witness ==
    /\ min_distance > 0
    /\ Len(returned) >= 1
    /\ \E i, j \in DOMAIN returned[1].points :
          /\ returned[1].points[i].stratum_class # returned[1].points[j].stratum_class
          /\ DistSq(<<returned[1].points[i].x, returned[1].points[i].y>>,
                    <<returned[1].points[j].x, returned[1].points[j].y>>)
                = min_distance * min_distance

\* C3: two calls with equal candidates_per_class, n_per_class, min_distance
\* and seed return identical point sequences and identical warnings, whatever
\* was drawn from numpy's global generator between them.
\* No step of the call (entry, loop iteration, return) writes the global
\* generator.
C3_SameSeedSameResult ==
    /\ [](  (Len(returned) = 2 /\ returned[1].has_scipy = returned[2].has_scipy) =>
              /\ returned[1].points = returned[2].points
              /\ returned[1].warnings = returned[2].warnings )
    /\ [][ (pc = "loop" \/ pc' = "loop") => global_rng' = global_rng ]_vars

\* Both calls shuffled a pool of two candidates and kept one of them.
C3_Witness ==
    /\ Len(returned) = 2
    /\ returned[1].has_scipy = returned[2].has_scipy
    /\ Len(returned[2].points) = 1
    /\ \E c \in DOMAIN candidates_per_class :
          /\ c \in DOMAIN n_per_class
          /\ Len(candidates_per_class[c]) = 2
          /\ candidates_per_class[c][1] # candidates_per_class[c][2]

\* C4: the ids of the points are 1..len(points) in list order; the points are
\* ordered by ascending class; a class that yields no point consumes no id.
IdsAndClassesOrdered(points) ==
    /\ \A i \in DOMAIN points : points[i].id = i
    /\ \A i, j \in DOMAIN points :
          i < j => points[i].stratum_class <= points[j].stratum_class

\* Within the run the points stand in the order in which their coordinates
\* were accepted, and a loop iteration only appends to the list.
C4_SequentialIds ==
    /\ [](  /\ IdsAndClassesOrdered(all_points)
            /\ point_id = Len(all_points) + 1
            /\ all_selected_coords = [t \in DOMAIN all_points |->
                                         <<all_points[t].x, all_points[t].y>>]
            /\ \A c \in DOMAIN returned : IdsAndClassesOrdered(returned[c].points) )
    /\ [][ (pc = "loop" /\ pc' = "loop") =>
              /\ Len(all_points') >= Len(all_points)
              /\ SubSeq(all_points', 1, Len(all_points)) = all_points
              /\ \A t \in (Len(all_points) + 1)..Len(all_points') :
                    all_points'[t].stratum_class = classes[cls_idx + 1] ]_vars

\* Class 1 is asked for but yields nothing; the first id goes to class 2.
C4_Witness ==
    /\ Len(returned) >= 1
    /\ 1 \in DOMAIN n_per_class
    /\ n_per_class[1] > 0
    /\ returned[1].points # << >>
    /\ returned[1].points[1].stratum_class = 2
    /\ returned[1].points[1].id = 1

\* C5: with the same arguments the call returns the same points (and warnings)
\* whether _select_with_distance queries the cKDTree or loops by brute force.
C5_TreeEqualsBruteForce ==
    (Len(returned) = 2 /\ returned[1].has_scipy # returned[2].has_scipy) =>
        /\ returned[1].points = returned[2].points
        /\ returned[1].warnings = returned[2].warnings

\* A candidate of class 2 was checked against an accepted point of class 1,
\* once through the tree and once by brute force.
C5_Witness ==
    /\ Len(returned) = 2
    /\ returned[1].has_scipy # returned[2].has_scipy
    /\ min_distance > 0
    /\ \E i \in DOMAIN returned[2].points : returned[2].points[i].stratum_class = 1
    /\ 2 \in DOMAIN candidates_per_class
    /\ 2 \in DOMAIN n_per_class
    /\ Len(candidates_per_class[2]) > 0
    /\ n_per_class[2] > 0


\* The number of points of the list whose stratum is class c
PointsOfClass(points, c) ==
    Cardinality({t \in DOMAIN points : points[t].stratum_class = c})

\* The number of candidate rows of class c, 0 for a class without entry
CandidatesOfClass(c) ==
    IF c \in DOMAIN candidates_per_class THEN Len(candidates_per_class[c]) ELSE 0

ProgressCalls(done, total) == [i \in 1..done |-> <<i, total>>]

\* C26: progress_callback is invoked once per class key of n_per_class, after
\* the batch of the class (also of a class skipped for missing or empty
\* candidates), with (i, total) for i = 1..total in increasing order; the
\* points and warnings returned with a callback are those returned without.
C26_CallbackOncePerClass ==
    /\ pc = "loop" =>
          progress = IF progress_callback
                     THEN ProgressCalls(cls_idx, Cardinality(DOMAIN n_per_class))
                     ELSE << >>
    /\ \A t \in DOMAIN returned :
          returned[t].progress =
              IF returned[t].callback
              THEN ProgressCalls(Cardinality(DOMAIN n_per_class),
                                 Cardinality(DOMAIN n_per_class))
              ELSE << >>
    /\ (Len(returned) = 2 /\ returned[1].callback # returned[2].callback) =>
          /\ returned[1].points = returned[2].points
          /\ returned[1].warnings = returned[2].warnings

\* A call with a callback and one without: two classes, the first skipped
\* for want of candidates, the second giving a point.
C26_Witness ==
    /\ Len(returned) = 2
    /\ returned[1].callback
    /\ ~returned[2].callback
    /\ returned[1].progress = <<(<<1, 2>>), (<<2, 2>>)>>
    /\ 1 \notin DOMAIN candidates_per_class
    /\ returned[2].points # << >>
    /\ returned[2].warnings # << >>

\* a lies closer than md to b.
Nearer(a, b, md) == DistSq(a, b) < md * md

\* The first row of coords that holds q
FirstPosition(coords, q) ==
    CHOOSE i \in DOMAIN coords : coords[i] = q /\ \A j \in 1..(i - 1) : coords[j] # q

\* The candidates of the class about to be processed, in shuffled order
ShuffledCandidates ==
    LET coords0 == candidates_per_class[classes[cls_idx + 1]]
        shuffle == permutation(Len(coords0), rng)
    IN  [t \in DOMAIN coords0 |-> coords0[shuffle.perm[t]]]

\* C29: with min_distance > 0 a candidate of class c is left out only because
\* the quota n_per_class[c] was filled by candidates before it or because it
\* lies closer than min_distance to a point accepted before it, of class c or
\* of an earlier class; so where class c ends with fewer points than
\* requested, every unselected candidate of c is closer than min_distance to
\* some accepted point.
C29_LeftOutOnlyForCause ==
    [][ ( /\ pc = "loop"
          /\ cls_idx' = cls_idx + 1
          /\ min_distance > 0
          /\ classes[cls_idx + 1] \in DOMAIN candidates_per_class ) =>
        LET n_desired == n_per_class[classes[cls_idx + 1]]
            coords == ShuffledCandidates
            earlier == Range(all_selected_coords)
            new == {all_selected_coords'[t] :
                       t \in (Len(all_selected_coords) + 1)..Len(all_selected_coords')}
            AcceptedBefore(i) == {q \in new : FirstPosition(coords, q) < i}
            Selected(i) == coords[i] \in new /\ FirstPosition(coords, coords[i]) = i
        IN  /\ \A i \in DOMAIN coords :
                  \/ Selected(i)
                  \/ Cardinality(AcceptedBefore(i)) >= n_desired
                  \/ \E q \in earlier \cup AcceptedBefore(i) : Nearer(coords[i], q, min_distance)
            /\ Cardinality(new) < n_desired =>
                  \A i \in DOMAIN coords :
                      \/ Selected(i)
                      \/ \E q \in earlier \cup new : Nearer(coords[i], q, min_distance)
      ]_vars

\* Class 1 has two candidates and wants two points, but the second lies
\* closer than min_distance to the first: one point.
C29_Witness ==
    /\ Len(returned) >= 1
    /\ min_distance > 0
    /\ 1 \in DOMAIN candidates_per_class
    /\ 1 \in DOMAIN n_per_class
    /\ Len(candidates_per_class[1]) = 2
    /\ candidates_per_class[1][1] # candidates_per_class[1][2]
    /\ n_per_class[1] = 2
    /\ PointsOfClass(returned[1].points, 1) = 1

\* The number of candidate rows of class c that hold q
RowsAt(c, q) ==
    Cardinality({u \in DOMAIN candidates_per_class[c] : candidates_per_class[c][u] = q})

\* The number of points of class c at q
PointsAt(points, c, q) ==
    Cardinality({t \in DOMAIN points :
                    points[t].stratum_class = c /\ <<points[t].x, points[t].y>> = q})

SampledWithoutReplacement(points) ==
    /\ \A t \in DOMAIN points :
          /\ points[t].stratum_class \in DOMAIN candidates_per_class
          /\ <<points[t].x, points[t].y>>
                \in Range(candidates_per_class[points[t].stratum_class])
    /\ \A c \in DOMAIN candidates_per_class :
          \A q \in Range(candidates_per_class[c]) : PointsAt(points, c, q) <= RowsAt(c, q)
    /\ \A c \in DOMAIN n_per_class :
          n_per_class[c] >= 0 => PointsOfClass(points, c) <= n_per_class[c]

\* C30: every point of stratum c has the coordinates of a candidate row of
\* class c, no candidate row gives more than one point, class c gets at most
\* n_per_class[c] points where n_per_class[c] >= 0, and the candidate arrays
\* and n_per_class of the caller are never modified.
C30_PointsAreCandidates ==
    /\ [](  /\ SampledWithoutReplacement(all_points)
            /\ \A t \in DOMAIN returned : SampledWithoutReplacement(returned[t].points) )
    /\ [][ /\ candidates_per_class' = candidates_per_class
           /\ n_per_class' = n_per_class ]_vars

\* Class 1 has the same row twice and both rows are used: two points at it.
C30_Witness ==
    /\ Len(returned) >= 1
    /\ 1 \in DOMAIN candidates_per_class
    /\ 1 \in DOMAIN n_per_class
    /\ Len(candidates_per_class[1]) = 2
    /\ candidates_per_class[1][1] = candidates_per_class[1][2]
    /\ n_per_class[1] = 2
    /\ PointsOfClass(returned[1].points, 1) = 2

(***************************************************************************)
(* Properties of wilson_ci (SpecWilson).                                   *)
(***************************************************************************)
\* center - spread < b, = b; center + spread > b, = b (exact values)
RawLowerLess(iv, b) == SqrtLess(RSub(iv.center, b), HalfSq(iv))

RawLowerEq(iv, b) == SqrtLeq(RSub(iv.center, b), HalfSq(iv)) /\ ~RawLowerLess(iv, b)

RawUpperGreater(iv, b) == SqrtLess(RSub(b, iv.center), HalfSq(iv))

RawUpperEq(iv, b) == SqrtLeq(RSub(b, iv.center), HalfSq(iv)) /\ ~RawUpperGreater(iv, b)

\* max(0.0, lower) <= b and b <= min(1.0, upper) for the rounded bounds
FloatLowerLeq(out, b) ==
    /\ RLe(RInt(0), b)
    /\ \/ RawLowerLess(out.ci, b)
       \/ RawLowerEq(out.ci, b) /\ out.round_lower <= 0

FloatUpperGeq(out, b) ==
    /\ RLe(b, RInt(1))
    /\ \/ RawUpperGreater(out.ci, b)
       \/ RawUpperEq(out.ci, b) /\ out.round_upper >= 0

\* C13: for p in [0, 1], n >= 0 and z > 0, wilson_ci returns (lower, upper)
\* with 0 <= lower <= p <= upper <= 1, never NaN (the two outer inequalities
\* are the clamps max(0.0, .) and min(1.0, .)); for n = 0 it returns (0, 1).
C13_WilsonBracketsP ==
    Called("wilson_ci") =>
        /\ ~IsNaNInterval(result.out.ci)
        /\ result.out.ci.clamp
        /\ FloatLowerLeq(result.out, args.p)
        /\ FloatUpperGeq(result.out, args.p)
        /\ args.n = 0 =>
              /\ RawLowerEq(result.out.ci, RInt(0))
              /\ RawUpperEq(result.out.ci, RInt(1))

(***************************************************************************)
(* Properties of normalize_confusion_matrix (SpecNormalize).               *)
(***************************************************************************)
\* The cells of line t of the matrix along the axis: row t for axis 1,
\* column t for axis 0.
LineOf(m, axis, t) ==
    IF axis = 1 THEN m[t] ELSE [i \in 1..Len(m) |-> m[i][t]]

\* The doubles of a line cannot add up to 100.0: none lies above its exact
\* percentage and one lies below, or none lies below and one lies above.
SumOffHundred(line) ==
    \/ (\A t \in DOMAIN line : line[t].round <= 0) /\ (\E t \in DOMAIN line : line[t].round < 0)
    \/ (\A t \in DOMAIN line : line[t].round >= 0) /\ (\E t \in DOMAIN line : line[t].round > 0)

\* C14: every row (axis 1) or column (axis 0) of non-zero total is mapped to
\* the cells 100*cell/total, which sum to exactly 100; an all-zero row or
\* column is mapped to zeros; no cell is NaN or infinite.
C14_NormalizedSumsTo100 ==
    Called("normalize_confusion_matrix") =>
        \A t \in 1..Len(matrix) :
            LET inp == LineOf(matrix, args.axis, t)
                line == LineOf(result.out, args.axis, t)
                total == SumSeq(inp)
            IN  /\ \A u \in DOMAIN line : ~IsNaN(line[u].val)
                /\ total = 0 => \A u \in DOMAIN line : line[u] = [val |-> RInt(0), round |-> 0]
                /\ total # 0 =>
                      /\ \A u \in DOMAIN line : line[u].val = R(100 * inp[u], total)
                      /\ RSum([u \in DOMAIN line |-> line[u].val]) = RInt(100)
                      /\ ~SumOffHundred(line)

(***************************************************************************)
(* Properties of calculate_sample_size (SpecSampleSize).                   *)
(***************************************************************************)
\* z^2 * p * (1 - p) / E^2 for the arguments of the call, in exact arithmetic
InfiniteN ==
    LET z == Z_SCORES[args.confidence_level]
    IN  RDiv(RMul(RMul(RMul(z, z), args.expected_accuracy),
                  RSub(RInt(1), args.expected_accuracy)),
             RMul(args.margin_of_error, args.margin_of_error))

\* C15: calculate_sample_size returns the least integer >= z^2*p*(1-p)/E^2
\* for population_size = 0 and the least integer >= n/(1 + n/population_size)
\* for that n otherwise; (0.95, 0.85, 0.05) with infinite population gives 196.
C15_SampleSizeIsCeiling ==
    Returned("calculate_sample_size") =>
        LET N == args.population_size
            n == InfiniteN
        IN  /\ N = 0 => result.out.n = Ceil(n)
            /\ N > 0 => result.out.n = Ceil(RDiv(n, RAdd(RInt(1), RDiv(n, RInt(N)))))
            /\ (args.confidence_level = R(95, 100) /\ args.expected_accuracy = R(85, 100)
                  /\ args.margin_of_error = R(5, 100) /\ N = 0) => result.out.n = 196

\* What the call returns for the same arguments and an infinite population,
\* for one rounding of its n.
InfiniteResult(round) ==
    calculate_sample_size(args.confidence_level, args.expected_accuracy,
                          args.margin_of_error, 0, round)

\* C16 as stated: for fixed valid arguments, every finite population_size > 0
\* gives a strictly smaller n than population_size = 0.
C16_FiniteStrictlySmaller ==
    (Returned("calculate_sample_size") /\ args.population_size > 0) =>
        \E round \in Roundings : result.out.n < InfiniteResult(round).n

\* C16 as amended: a finite population_size > 0 never gives a larger n than
\* population_size = 0, and gives a strictly smaller one whenever
\* population_size is below the n of the infinite population.
C16_FiniteNeverLarger ==
    (Returned("calculate_sample_size") /\ args.population_size > 0) =>
        \A round \in Roundings :
            /\ result.out.n <= InfiniteResult(round).n
            /\ args.population_size < InfiniteResult(round).n =>
                  result.out.n < InfiniteResult(round).n

\* (0.95, 0.85, 0.05): 40 samples for a population of 50, 196 for an infinite one.
C16_Witness ==
    /\ Returned("calculate_sample_size")
    /\ args.population_size = 50
    /\ result.out.n = 40
    /\ InfiniteResult(0).n = 196

(***************************************************************************)
(* Properties of allocate_equal (SpecAllocEqual).                          *)
(***************************************************************************)
\* Sum of the values of a dict with integer values
DictSum(f) == SumValues(f)

\* The number of labels of the list below l
RankOf(l, labels) == Cardinality({v \in Range(labels) : v < l})

\* C17: for total_n >= 0 and a non-empty list of k distinct labels the values
\* of the allocation sum to total_n, every class gets total_n // k or
\* total_n // k + 1, and exactly the first (total_n mod k) labels in sorted
\* order get the extra one; an empty list fails with EmptyInput.
C17_EqualAllocation ==
    Called("allocate_equal") =>
        LET labels == args.class_labels
            k == Len(labels)
            o == result.out
        IN  /\ labels = << >> <=> o.err = "EmptyInput"
            /\ (labels # << >> /\ IsInjective(labels) /\ args.total_n >= 0) =>
                  /\ o.err = "none"
                  /\ DOMAIN o.allocation = Range(labels)
                  /\ DictSum(o.allocation) = args.total_n
                  /\ \A l \in Range(labels) :
                        o.allocation[l] =
                            (args.total_n \div k)
                              + (IF RankOf(l, labels) < args.total_n % k THEN 1 ELSE 0)

\* allocate_equal(100, [3, 1, 2]): 34 for class 1, 33 for classes 2 and 3.
C17_Witness ==
    /\ Returned("allocate_equal")
    /\ args.total_n = 100
    /\ args.class_labels = <<3, 1, 2>>
    /\ result.out.allocation = (1 :> 34) @@ (2 :> 33) @@ (3 :> 33)

(***************************************************************************)
(* Properties of allocate_proportional (SpecAllocProp).                    *)
(***************************************************************************)
\* C18: the values of the allocation returned by allocate_proportional sum
\* to exactly total_n, for every total_n, pixel-count map and min_per_class
\* the function accepts.
C18_ProportionalSumsToTotal ==
    Returned("allocate_proportional") =>
        DictSum(result.out.allocation) = args.total_n

\* C19: in the allocation returned by allocate_proportional every class has at
\* least min(min_per_class, pixel count of the class) samples, also after the
\* redistribution step.
C19_MinimumPerClassKept ==
    Returned("allocate_proportional") =>
        \A label \in DOMAIN result.out.allocation :
            result.out.allocation[label]
                >= Min(args.min_per_class, args.class_pixel_counts[label])

(***************************************************************************)
(* Properties of the confidence level (SpecConfidence).                    *)
(***************************************************************************)
\* C24: a confidence level outside the open interval (0, 1) is rejected with
\* InvalidParameter by calculate_sample_size, z_score_for_confidence and
\* compute_metrics, and no result is returned (compute_metrics may fail
\* earlier on the shape or on an empty matrix).
C24_LevelOutsideUnitRejected ==
    (result # NoCall /\ OutsideUnit(args.confidence_level)) =>
        \/ result.out.err = "InvalidParameter"
        \/ /\ result.op = "compute_metrics"
           /\ result.out.err \in {"ShapeMismatch", "EmptyInput"}

(***************************************************************************)
(* Properties of run_accuracy_assessment (SpecWorkflow).                   *)
(***************************************************************************)
WfReturned == result.op = "run_accuracy_assessment" /\ result.out.err = "none"

WfRaised == result.op = "run_accuracy_assessment" /\ result.out.err # "none"

\* validate_accuracy_inputs has run: it is the first to read the metadata.
Validated == reads # << >>

HasFatal(issues) == \E t \in DOMAIN issues : IsFatal(issues[t])

WarningsOf(issues) == SelectSeq(issues, IsWarning)

\* C22: once validation has run, a FATAL finding means that the run has
\* raised and that none of build_matrix, compute_metrics, Pontius, Kappa and
\* Olofsson was called; without a FATAL finding the run goes on to build the
\* confusion matrix whatever WARNING findings there are, and a returned
\* result comes with a ValidationResult that holds those WARNING findings.
C22_FatalBlocksWarningsPass ==
    /\ (Validated /\ HasFatal(validation)) =>
          /\ WfRaised
          /\ result.out.err = "ValidationFailed"
          /\ wf_pc = "done"
          /\ calls = << >>
          /\ matrix = << >>
    /\ (Validated /\ ~HasFatal(validation) /\ wf_pc # "build") =>
          /\ calls # << >>
          /\ calls[1] = "build_matrix"
          /\ matrix # << >>
    /\ WfReturned =>
          /\ ~HasFatal(validation)
          /\ result.out.result.matrix = matrix
          /\ WarningsOf(result.out.validation) = WarningsOf(validation)

\* A run is returned although validation gave two or more WARNING findings.
C22_Witness ==
    /\ WfReturned
    /\ Len(WarningsOf(result.out.validation)) >= 2
    /\ calls[1] = "build_matrix"

\* C23: every finding of validation reaches the caller: a returned run comes
\* with a ValidationResult that holds them all, and when validation fails
\* the raised error carries them all, the non-fatal ones included.
C23_AllFindingsReachCaller ==
    /\ WfReturned => result.out.validation = validation
    /\ (WfRaised /\ result.out.err = "ValidationFailed") =>
          result.out.issues = validation

\* C27: the Kappa interval of a returned result is computed with the z-score
\* of the caller's confidence_level (a degenerate Kappa has the interval
\* (0, 0) whatever the level).
C27_KappaIntervalUsesLevel ==
    (WfReturned /\ result.out.result.kappa_ci.present) =>
        \/ result.out.result.kappa_ci.value = PointInterval(RInt(0))
        \/ result.out.result.kappa_ci.value.z
              = z_score_for_confidence(args.confidence_level)

\* Every get_raster_info of the run found the same metadata.
SameMetadata == \A i, j \in DOMAIN reads : reads[i] = reads[j]

\* C28: where the raster metadata is the same at every read, a returned
\* result has area_weighted if and only if compute_area_weighted was
\* requested and kappa if and only if compute_kappa was requested; where
\* olofsson.compute fails on a precondition the run has raised that failure.
C28_OptionalPartsAsRequested ==
    /\ (WfReturned /\ SameMetadata) =>
          /\ result.out.result.area_weighted.present <=> args.compute_area_weighted
          /\ result.out.result.kappa.present <=> args.compute_kappa
          /\ result.out.result.kappa_ci.present <=> args.compute_kappa
    /\ (wf_pc \in {"package", "done"} /\ calls # << >> /\ calls[Len(calls)] = "olofsson") =>
          LET out == olofsson_compute(matrix, mapped_area_ha, class_labels,
                                      z_score_for_confidence(args.confidence_level))
          IN  out.err # "none" => WfRaised /\ result.out.err = out.err

\* A result with the area-weighted estimates and without Kappa.
C28_Witness ==
    /\ WfReturned
    /\ SameMetadata
    /\ args.compute_area_weighted
    /\ ~args.compute_kappa
    /\ result.out.result.area_weighted.present
    /\ ~result.out.result.kappa.present


(***************************************************************************)
(* Properties of SamplingTask.run (SpecTask).                              *)
(***************************************************************************)
\* Some checkpoint found the task cancelled.
CancelSeen == \E t \in DOMAIN checkpoints : checkpoints[t].canceled

\* The checkpoints of a complete run: one per class extracted, then one per
\* class batch.
CheckpointsOfRun ==
    LET total_steps == Len(task_locals.class_labels)
        batches == Cardinality(DOMAIN n_per_class)
    IN  [t \in 1..(total_steps + batches) |->
            [step |-> t, total |-> total_steps * 2, canceled |-> FALSE]]

\* C25: once a progress checkpoint of run() finds the cancel flag set (a
\* checkpoint follows each class's candidate extraction and each class's
\* batch), run() returns False, self.result stays None and self.exception
\* stays None; a SampleSet is stored only by a run that passed every
\* checkpoint, and then it holds the points of every batch.
C25_CancelDiscardsPartial ==
    /\ CancelSeen =>
          /\ run_returned = Some(FALSE)
          /\ task_result = None
          /\ task_exception = None
    /\ task_result # None =>
          /\ run_returned = Some(TRUE)
          /\ checkpoints = CheckpointsOfRun
          /\ task_result.value.points = returned[Len(returned)].points
    /\ run_returned = None => task_result = None /\ task_exception = None

\* The task is cancelled at the checkpoint after a batch that had selected
\* a point.
C25_Witness ==
    /\ CancelSeen
    /\ Len(checkpoints) > Len(task_locals.class_labels)
    /\ all_points # << >>
    /\ run_returned = Some(FALSE)
    /\ task_result = None

====
